---- MODULE Spec2Model ----
(***************************************************************************)
(* Model of the AI Podcast Generator backend: the auth gate, the two rate  *)
(* limiters, the generate-research and generate-audio routes and the       *)
(* scripts resource routes, with the external identity provider, script    *)
(* service, speech service and relational store as nondeterministic        *)
(* environments.                                                           *)
(*                                                                         *)
(* Source files (several repository files are concatenated in each):       *)
(*   src/backend/src/server.ts            server.ts + middleware/auth.ts   *)
(*   src/backend/src/routes/generate-research.ts                           *)
(*                                        generate-research + scripts      *)
(*   src/backend/src/middleware/errorHandler.ts                            *)
(*                                        errorHandler + pythonService +   *)
(*                                        elevenlabsService                *)
(*   src/unnamed/part_002                 routes/generate-audio.ts         *)
(***************************************************************************)
EXTENDS Integers, Sequences, FiniteSets, TLC

(***************************************************************************)
(* JavaScript values.  A value is a record tagged with its typeof class.   *)
(* A number is v, or v + 1/2 when half is TRUE, so that non-integers on    *)
(* both sides of a bound exist; NaN is its own value.                      *)
(***************************************************************************)
Undefined == [t |-> "undefined"]

NaN == [t |-> "nan"]

Str(s) == [t |-> "string", v |-> s]

Num(n) == [t |-> "number", v |-> n, half |-> FALSE]

NumHalf(n) == [t |-> "number", v |-> n, half |-> TRUE]

Arr(a) == [t |-> "array", v |-> a]

Null == [t |-> "null"]

\* typeof x === 'string'
IsString(x) == x.t = "string"

\* typeof x === 'number' (NaN is a number)
IsNumber(x) == x.t \in {"number", "nan"}

\* Array.isArray(x)
IsArray(x) == x.t = "array"

\* !x : undefined, null, "", 0 and NaN are falsy; arrays (also []) are truthy
Falsy(x) ==
  \/ x.t = "undefined"
  \/ x.t = "null"
  \/ x.t = "nan"
  \/ (x.t = "string" /\ x.v = "")
  \/ (x.t = "number" /\ x.v = 0 /\ ~x.half)

\* x < n for a number x and an integer n (false for NaN)
NumLess(x, n) == x.t = "number" /\ x.v < n

\* x > n for a number x and an integer n (false for NaN)
NumGreater(x, n) == x.t = "number" /\ (x.v > n \/ (x.v = n /\ x.half))

(***************************************************************************)
(* String functions, computed character by character.                      *)
(***************************************************************************)
UpperAlphabet == "ABCDEFGHIJKLMNOPQRSTUVWXYZ"

LowerAlphabet == "abcdefghijklmnopqrstuvwxyz"

CharAt(s, i) == SubSeq(s, i, i)

IsSpace(c) == c \in {" ", "\t", "\n", "\r"}

\* the upper-case letters, each with its lower-case letter
LowerTable ==
  [c \in {CharAt(UpperAlphabet, i) : i \in 1..26} |->
     CharAt(LowerAlphabet, CHOOSE i \in 1..26 : CharAt(UpperAlphabet, i) = c)]

LowerChar(c) == IF c \in DOMAIN LowerTable THEN LowerTable[c] ELSE c

\* String.prototype.toLowerCase
RECURSIVE ToLowerCase(_)
ToLowerCase(s) ==
  IF Len(s) = 0 THEN ""
  ELSE LowerChar(CharAt(s, 1)) \o ToLowerCase(SubSeq(s, 2, Len(s)))

RECURSIVE TrimStart(_)
TrimStart(s) ==
  IF Len(s) > 0 /\ IsSpace(CharAt(s, 1)) THEN TrimStart(SubSeq(s, 2, Len(s))) ELSE s

RECURSIVE TrimEnd(_)
TrimEnd(s) ==
  IF Len(s) > 0 /\ IsSpace(CharAt(s, Len(s))) THEN TrimEnd(SubSeq(s, 1, Len(s) - 1)) ELSE s

\* String.prototype.trim
Trim(s) == TrimEnd(TrimStart(s))

\* String.prototype.startsWith
StartsWith(s, p) == Len(s) >= Len(p) /\ SubSeq(s, 1, Len(p)) = p

\* String.prototype.substring(n) (n characters dropped)
Substring(s, n) == SubSeq(s, n + 1, Len(s))

\* Array.prototype.join over a sequence of strings
RECURSIVE Join(_, _)
Join(a, sep) ==
  IF Len(a) = 0 THEN ""
  ELSE IF Len(a) = 1 THEN a[1]
  ELSE a[1] \o sep \o Join(Tail(a), sep)

\* Array.prototype.includes over a sequence
Includes(a, x) == \E i \in 1..Len(a) : a[i] = x

(***************************************************************************)
(* Bounds of the model.                                                    *)
(***************************************************************************)
\* rows the store comes to hold in the specification of the scripts routes
MaxRecords == 2

\* rows the store comes to hold in the other specifications
FewRecords == 1

\* requests one limiter key counts in a window, outside the limiter specification
FewHits == 1

\* requests one limiter key counts in a window beyond the limiter's max, in the
\* limiter specification
HitsOverMax == 1

\* instants a limiter window spans where time is tracked: windowMs in ticks
WindowTicks == 2

(***************************************************************************)
(* Program constants.                                                      *)
(***************************************************************************)
\* generateLimiter: max
GenerateMax == 10

\* audioLimiter: max
AudioMax == 5

MinDuration == 5

MaxDuration == 120

\* authHeader.substring(7)
BearerPrefixLen == 7

validStyles == <<"conversational", "documentary", "investigative", "educational", "storytelling">>

\* the requests that can be in flight at the same time
Slots == {1, 2}

Ips == {"ip1", "ip2"}

Limiters == {"research", "audio"}

LimiterMax(l) == IF l = "research" THEN GenerateMax ELSE AudioMax

LimiterMessage(l) ==
  IF l = "research"
    THEN "Too many script generation requests, please try again later."
    ELSE "Too many audio generation requests, please try again later."

(***************************************************************************)
(* The external identity provider: client.auth.getUser(token).             *)
(***************************************************************************)
UserA == [id |-> "userA", email |-> "a@example.com"]

UserB == [id |-> "userB", email |-> "b@example.com"]

NoUser == [id |-> "", email |-> ""]

\* the answer {data: {user}, error} of the provider for a token: a user, no
\* user and no error, or an error
GetUser(token) ==
  IF token = "tokA" THEN [user |-> UserA, error |-> FALSE]
  ELSE IF token = "tokB" THEN [user |-> UserB, error |-> FALSE]
  ELSE IF token = "tokNone" THEN [user |-> NoUser, error |-> FALSE]
  ELSE [user |-> NoUser, error |-> TRUE]

(***************************************************************************)
(* Dialogue lines and scripts.                                             *)
(***************************************************************************)
HostLine == [speaker |-> "Host", text |-> Str("Welcome"), audioEffect |-> "none"]

GuestLine == [speaker |-> "Guest", text |-> Str("Thanks"), audioEffect |-> "laugh"]

BlankLine == [speaker |-> "Host", text |-> Str("  "), audioEffect |-> "none"]

NoTextLine == [speaker |-> "Guest", text |-> Undefined, audioEffect |-> "none"]

\* a line whose text begins and ends with white space
PaddedLine == [speaker |-> "Guest", text |-> Str(" Hi "), audioEffect |-> "none"]

\* the text of HostLine with another speaker and another effect
EchoLine == [speaker |-> "Guest", text |-> Str("Welcome"), audioEffect |-> "applause"]

\* the scripts the script-generation service may return
ServiceScripts == {<< >>, <<HostLine>>, <<GuestLine, HostLine>>}

(***************************************************************************)
(* Requests.  One record shape for every route; fields a route does not    *)
(* read are Undefined.                                                     *)
(***************************************************************************)
Request(route, ip, authorization, topic, durationMinutes, style, script, id) ==
  [route |-> route, ip |-> ip, authorization |-> authorization, topic |-> topic,
   durationMinutes |-> durationMinutes, style |-> style, script |-> script, id |-> id]

NoRequest == Request("none", "ip1", Undefined, Undefined, Undefined, Undefined, Undefined, "")

ResearchRequests(I, H, T, D, S) ==
  {Request("research", ip, h, t, d, s, Undefined, "") : ip \in I, h \in H, t \in T, d \in D, s \in S}

AudioRequests(I, H, A) ==
  {Request("audio", ip, h, Undefined, Undefined, Undefined, a, "") : ip \in I, h \in H, a \in A}

ScriptsRequests(R, I, H, K) ==
  {Request(route, ip, h, Undefined, Undefined, Undefined, Undefined, k) :
     route \in R, ip \in I, h \in H, k \in K}

(***************************************************************************)
(* State.                                                                  *)
(***************************************************************************)
VARIABLES
  pc,             \* [slot -> where the request in the slot stands]
  req,            \* [slot -> the request]
  resp,           \* [slot -> the response sent, status 0 while none is]
  ctx,            \* [slot -> req.user and the handler's local variables]
  calls,          \* [slot -> what the request has done to the outside, for the claims]
  hits,           \* [limiter -> [ip -> requests counted in the current window]]
  store,          \* the rows of table scripts
  nextId,         \* the next id the store generates
  envSupabase,    \* SUPABASE_URL and SUPABASE_SERVICE_KEY are set
  routeSupabase,  \* the route modules' supabase client is not null
  authClient,     \* the auth middleware's lazily created client exists
  apiKey,         \* ELEVENLABS_API_KEY is set
  windowAge,      \* [limiter -> [ip -> ticks since the key's window began]]
  page,           \* the state of the PodcastGenerator page in the browser
  scriptHistory,  \* the state of the ScriptHistory page in the browser
  history         \* the requests each window has seen and what was deleted, for the claims

vars == <<pc, req, resp, ctx, calls, hits, store, nextId,
          envSupabase, routeSupabase, authClient, apiKey, windowAge, page, scriptHistory,
          history>>

env == <<envSupabase, routeSupabase, apiKey>>

NoResp == [status |-> 0, body |-> [kind |-> "none"]]

ErrorBody(msg) == [kind |-> "error", error |-> msg]

\* res.status(code).json({error: msg})
ErrorResp(code, msg) == [status |-> code, body |-> ErrorBody(msg)]

NoCtx == [token |-> "", user |-> NoUser, hasUser |-> FALSE, totalHits |-> 0,
          script |-> << >>, allText |-> ""]

NoCalls == [getUser |-> 0, limiter |-> 0, generate |-> 0, speech |-> 0,
            insert |-> 0, select |-> 0, delete |-> 0, handler |-> 0, responses |-> 0,
            faults |-> 0, sent |-> Undefined, upstream |-> Undefined,
            insertOutcome |-> "none", insertedId |-> "", owned |-> FALSE, again |-> FALSE,
            ordinal |-> 0, verify |-> "none", lapsed |-> FALSE]

\* the PodcastGenerator page as it is first rendered: the component's state,
\* where handleGenerate stands, its locals token and data, and what it has sent
\* and received since it was last started
InitPage ==
  [at |-> "form", topic |-> "", duration |-> Num(20), style |-> "conversational",
   script |-> Null, loading |-> FALSE, loadingStep |-> "", audioUrl |-> Null, error |-> Null,
   token |-> Null, data |-> Undefined,
   researchSent |-> 0, researchBody |-> Undefined, researchAnswer |-> Undefined,
   audioSent |-> 0, audioBody |-> Undefined]

\* the calls of handleDeleteScript that can be under way at once
Deletes == {1, 2}

\* a call of handleDeleteScript that is not under way
NoDelete == [at |-> "idle", id |-> "", scripts |-> << >>]

\* the ScriptHistory page as it is first rendered: the component's state, the
\* calls of handleDeleteScript under way, each with the id it was given and the
\* scripts of the render that started it, and the ids whose DELETE the server
\* answered with success
InitHistory ==
  [scripts |-> << >>, loading |-> TRUE, error |-> Null,
   deleting |-> [d \in Deletes |-> NoDelete], deleted |-> {}]

\* no request admitted at any of the last WindowTicks instants
NoneRecent == [i \in 1..WindowTicks |-> 0]

\* the state after the modules are loaded: no request, empty windows.  The route
\* modules read the credentials once when they are loaded and the auth middleware
\* reads them at the first request, so a route client implies the credentials.
Init ==
  /\ pc = [r \in Slots |-> "idle"]
  /\ req = [r \in Slots |-> NoRequest]
  /\ resp = [r \in Slots |-> NoResp]
  /\ ctx = [r \in Slots |-> NoCtx]
  /\ calls = [r \in Slots |-> NoCalls]
  /\ hits = [l \in Limiters |-> [ip \in Ips |-> 0]]
  /\ store = {}
  /\ nextId = 1
  /\ envSupabase \in BOOLEAN
  /\ routeSupabase \in {b \in BOOLEAN : b => envSupabase}
  /\ authClient = FALSE
  /\ apiKey \in BOOLEAN
  /\ windowAge = [l \in Limiters |-> [ip \in Ips |-> 0]]
  /\ page = InitPage
  /\ scriptHistory = InitHistory
  /\ history = [counted |-> [l \in Limiters |-> [ip \in Ips |-> 0]], deleted |-> {},
                recent |-> [l \in Limiters |-> [ip \in Ips |-> NoneRecent]],
                admitted |-> [l \in Limiters |-> [ip \in Ips |-> 0]]]

\* res.status(...).json(...) or res.send(...): the request is answered
Respond(r, response) ==
  /\ pc' = [pc EXCEPT ![r] = "done"]
  /\ resp' = [resp EXCEPT ![r] = response]

Count(r, field) == [calls EXCEPT ![r][field] = @ + 1]

\* a response is sent after a store query ended with the given outcome
Answered(r, outcome) ==
  [calls EXCEPT ![r].responses = @ + 1,
                ![r].faults = IF outcome = "answer" THEN @ ELSE @ + 1]

(***************************************************************************)
(* A request arrives in a free slot.                                       *)
(***************************************************************************)
Arrive(r, Inputs, over) ==
  /\ pc[r] = "idle"
  /\ \E q \in Inputs :
       /\ q.route \in Limiters => hits[q.route][q.ip] < over
       /\ req' = [req EXCEPT ![r] = q]
  /\ pc' = [pc EXCEPT ![r] = "auth"]
  /\ resp' = [resp EXCEPT ![r] = NoResp]
  /\ ctx' = [ctx EXCEPT ![r] = NoCtx]
  /\ calls' = [calls EXCEPT ![r] = NoCalls]
  /\ UNCHANGED <<hits, store, nextId, authClient, env, windowAge, page, scriptHistory, history>>

(***************************************************************************)
(* middleware/auth.ts                                                      *)
(***************************************************************************)
\* a client that is created whatever the environment holds
getSupabaseClientAlways == TRUE

\* getSupabaseClient(): the client exists after the call
getSupabaseClient == authClient \/ envSupabase

\* the header check of authMiddleware
BadAuthHeader(authHeader) ==
  Falsy(authHeader) \/ ~StartsWith(authHeader.v, "Bearer ")

\* authMiddleware taking a request without a header for an anonymous one
AuthMiddlewareOptional(r) ==
  /\ pc[r] = "auth"
  /\ LET authHeader == req[r].authorization IN
     IF Falsy(authHeader)
       THEN /\ pc' = [pc EXCEPT ![r] = IF req[r].route \in Limiters THEN "limiter" ELSE "handler"]
            /\ UNCHANGED <<resp, calls, authClient, ctx>>
     ELSE IF BadAuthHeader(authHeader)
       THEN /\ Respond(r, ErrorResp(401, "Missing or invalid authorization header"))
            /\ calls' = Count(r, "responses")
            /\ UNCHANGED <<authClient, ctx>>
       ELSE /\ authClient' = getSupabaseClient
            /\ IF ~getSupabaseClient
                 THEN /\ Respond(r, ErrorResp(500, "Authentication service not configured"))
                      /\ calls' = Count(r, "responses")
                      /\ UNCHANGED ctx
                 ELSE /\ pc' = [pc EXCEPT ![r] = "verify"]
                      /\ ctx' = [ctx EXCEPT ![r].token = Substring(authHeader.v, BearerPrefixLen)]
                      /\ calls' = Count(r, "getUser")
                      /\ UNCHANGED resp
  /\ UNCHANGED <<req, hits, store, nextId, env, windowAge, page, scriptHistory, history>>

\* authMiddleware up to its await of client.auth.getUser(token)
AuthMiddleware(r) ==
  /\ pc[r] = "auth"
  /\ LET authHeader == req[r].authorization IN
     IF BadAuthHeader(authHeader)
       THEN /\ Respond(r, ErrorResp(401, "Missing or invalid authorization header"))
            /\ calls' = Count(r, "responses")
            /\ UNCHANGED <<authClient, ctx>>
       ELSE /\ authClient' = getSupabaseClient
            /\ IF ~getSupabaseClient
                 THEN /\ Respond(r, ErrorResp(500, "Authentication service not configured"))
                      /\ calls' = Count(r, "responses")
                      /\ UNCHANGED ctx
                 ELSE /\ pc' = [pc EXCEPT ![r] = "verify"]
                      /\ ctx' = [ctx EXCEPT ![r].token = Substring(authHeader.v, BearerPrefixLen)]
                      /\ calls' = Count(r, "getUser")
                      /\ UNCHANGED resp
  /\ UNCHANGED <<req, hits, store, nextId, env, windowAge, page, scriptHistory, history>>

\* the route after next(): the two generation routes start with their limiter
AfterAuth(route) == IF route \in Limiters THEN "limiter" ELSE "handler"

\* authMiddleware testing only the error of the provider's answer
AuthGetUserReplyErrorOnly(r) ==
  /\ pc[r] = "verify"
  /\ \/ /\ Respond(r, ErrorResp(500, "Authentication error"))
        /\ calls' = [Count(r, "responses") EXCEPT ![r].verify = "threw"]
        /\ UNCHANGED ctx
     \/ LET answer == GetUser(ctx[r].token) IN
        IF answer.error
          THEN /\ Respond(r, ErrorResp(401, "Invalid or expired token"))
               /\ calls' = [Count(r, "responses") EXCEPT ![r].verify = "answered"]
               /\ UNCHANGED ctx
          ELSE /\ ctx' = [ctx EXCEPT ![r].user = answer.user, ![r].hasUser = TRUE]
               /\ pc' = [pc EXCEPT ![r] = AfterAuth(req[r].route)]
               /\ calls' = [calls EXCEPT ![r].verify = "answered"]
               /\ UNCHANGED resp
  /\ UNCHANGED <<req, hits, store, nextId, authClient, env, windowAge, page, scriptHistory, history>>

\* authMiddleware from the answer of client.auth.getUser(token) on
AuthGetUserReply(r) ==
  /\ pc[r] = "verify"
  /\ \/ \* the call throws
        /\ Respond(r, ErrorResp(500, "Authentication error"))
        /\ calls' = [Count(r, "responses") EXCEPT ![r].verify = "threw"]
        /\ UNCHANGED ctx
     \/ LET answer == GetUser(ctx[r].token) IN
        IF answer.error \/ answer.user = NoUser
          THEN /\ Respond(r, ErrorResp(401, "Invalid or expired token"))
               /\ calls' = [Count(r, "responses") EXCEPT ![r].verify = "answered"]
               /\ UNCHANGED ctx
          ELSE /\ ctx' = [ctx EXCEPT ![r].user = answer.user, ![r].hasUser = TRUE]
               /\ pc' = [pc EXCEPT ![r] = AfterAuth(req[r].route)]
               /\ calls' = [calls EXCEPT ![r].verify = "answered"]
               /\ UNCHANGED resp
  /\ UNCHANGED <<req, hits, store, nextId, authClient, env, windowAge, page, scriptHistory, history>>

(***************************************************************************)
(* express-rate-limit with its memory store: a counter per client address, *)
(* incremented by every request that reaches the limiter, reset when the   *)
(* window ends; a request whose count exceeds max is answered 429.         *)
(***************************************************************************)
\* the window of a key ends: the requests it counted that still wait for the
\* limiter's decision belong to a window that is over
Lapsed(l, key) ==
  [r \in Slots |->
     IF pc[r] = "limitcheck" /\ req[r].route = l /\ req[r].ip = key
       THEN [calls[r] EXCEPT !.lapsed = TRUE] ELSE calls[r]]

\* the window of a key is over: resetTime has passed
WindowOver(l, key) == windowAge[l][key] >= WindowTicks

\* one limiter shared by the two routes: a request is counted on both
LimiterIncrementShared(r) ==
  /\ pc[r] = "limiter"
  /\ LET l == req[r].route
         key == req[r].ip
         totalHits == hits[l][key] + 1
         counted == history.counted[l][key] + 1 IN
       /\ hits' = [m \in Limiters |-> [hits[m] EXCEPT ![key] = IF m = l THEN totalHits ELSE @ + 1]]
       /\ windowAge' = [windowAge EXCEPT ![l][key] = IF totalHits = 1 THEN 0 ELSE @]
       /\ ctx' = [ctx EXCEPT ![r].totalHits = totalHits]
       /\ history' = [history EXCEPT !.counted[l][key] = counted]
       /\ calls' = [Count(r, "limiter") EXCEPT ![r].ordinal = counted]
  /\ pc' = [pc EXCEPT ![r] = "limitcheck"]
  /\ UNCHANGED <<req, resp, store, nextId, authClient, env, page, scriptHistory>>

\* the decision that already rejects the request that reaches max
OverLimitInclusive(totalHits, max) == totalHits >= max

\* the limiter's decision on the count it was given
OverLimit(totalHits, max) == totalHits > max

\* an increment that reads the count before the increment of a request still
\* waiting for its decision was written: the two requests learn the same count
LimiterIncrementRacy(r) ==
  /\ pc[r] = "limiter"
  /\ LET l == req[r].route
         key == req[r].ip
         expired == WindowOver(l, key)
         unwritten == \E o \in Slots :
                        /\ pc[o] = "limitcheck" /\ req[o].route = l /\ req[o].ip = key
                        /\ ~calls[o].lapsed
         totalHits == IF expired THEN 1 ELSE IF unwritten THEN hits[l][key] ELSE hits[l][key] + 1
         counted == (IF expired THEN 0 ELSE history.counted[l][key]) + 1 IN
       /\ hits' = [hits EXCEPT ![l][key] = totalHits]
       /\ windowAge' = [windowAge EXCEPT ![l][key] = IF totalHits = 1 THEN 0 ELSE @]
       /\ ctx' = [ctx EXCEPT ![r].totalHits = totalHits]
       /\ history' = [history EXCEPT
                        !.counted[l][key] = counted,
                        !.recent[l][key][1] =
                          IF OverLimit(totalHits, LimiterMax(l)) THEN @ ELSE @ + 1,
                        !.admitted[l][key] = IF expired THEN 0 ELSE @]
       /\ calls' = [(IF expired THEN Lapsed(l, key) ELSE calls) EXCEPT
                      ![r].limiter = @ + 1, ![r].ordinal = counted]
  /\ pc' = [pc EXCEPT ![r] = "limitcheck"]
  /\ UNCHANGED <<req, resp, store, nextId, authClient, env, page, scriptHistory>>

\* store.increment(key): a key whose window is over starts a new one; the request
\* is counted and learns its count
LimiterIncrement(r) ==
  /\ pc[r] = "limiter"
  /\ LET l == req[r].route
         key == req[r].ip
         expired == WindowOver(l, key)
         totalHits == (IF expired THEN 0 ELSE hits[l][key]) + 1
         counted == (IF expired THEN 0 ELSE history.counted[l][key]) + 1 IN
       /\ hits' = [hits EXCEPT ![l][key] = totalHits]
       /\ windowAge' = [windowAge EXCEPT ![l][key] = IF totalHits = 1 THEN 0 ELSE @]
       /\ ctx' = [ctx EXCEPT ![r].totalHits = totalHits]
       /\ history' = [history EXCEPT
                        !.counted[l][key] = counted,
                        !.recent[l][key][1] =
                          IF OverLimit(totalHits, LimiterMax(l)) THEN @ ELSE @ + 1,
                        !.admitted[l][key] = IF expired THEN 0 ELSE @]
       /\ calls' = [(IF expired THEN Lapsed(l, key) ELSE calls) EXCEPT
                      ![r].limiter = @ + 1, ![r].ordinal = counted]
  /\ pc' = [pc EXCEPT ![r] = "limitcheck"]
  /\ UNCHANGED <<req, resp, store, nextId, authClient, env, page, scriptHistory>>

\* the limiter answering 429 and calling next() all the same
LimiterCheckFallsThrough(r) ==
  /\ pc[r] = "limitcheck"
  /\ LET l == req[r].route IN
     /\ pc' = [pc EXCEPT ![r] = "handler"]
     /\ IF OverLimit(ctx[r].totalHits, LimiterMax(l))
          THEN /\ resp' = [resp EXCEPT ![r] =
                             [status |-> 429,
                              body |-> [kind |-> "text", text |-> LimiterMessage(l)]]]
               /\ calls' = [Count(r, "responses") EXCEPT ![r].lapsed = FALSE]
          ELSE /\ calls' = [calls EXCEPT ![r].lapsed = FALSE]
               /\ UNCHANGED resp
     /\ history' = [history EXCEPT
                      !.admitted[l][req[r].ip] = IF calls[r].lapsed THEN @ ELSE @ + 1]
  /\ UNCHANGED <<req, ctx, hits, store, nextId, authClient, env, windowAge, page, scriptHistory>>

\* the limiter answers 429 with its message or calls next()
LimiterCheck(r) ==
  /\ pc[r] = "limitcheck"
  /\ LET l == req[r].route IN
     IF OverLimit(ctx[r].totalHits, LimiterMax(l))
       THEN /\ Respond(r, [status |-> 429, body |-> [kind |-> "text", text |-> LimiterMessage(l)]])
            /\ calls' = [Count(r, "responses") EXCEPT ![r].lapsed = FALSE]
            /\ UNCHANGED history
       ELSE /\ pc' = [pc EXCEPT ![r] = "handler"]
            /\ calls' = [calls EXCEPT ![r].lapsed = FALSE]
            /\ history' = [history EXCEPT
                             !.admitted[l][req[r].ip] = IF calls[r].lapsed THEN @ ELSE @ + 1]
            /\ UNCHANGED resp
  /\ UNCHANGED <<req, ctx, hits, store, nextId, authClient, env, windowAge, page, scriptHistory>>

\* the window of one limiter key ends in a quiet time, more than a window after
\* the last request the key counted (the time it takes is not tracked)
ResetWindow ==
  /\ \E l \in Limiters, key \in Ips :
       /\ hits[l][key] > 0
       /\ hits' = [hits EXCEPT ![l][key] = 0]
       /\ windowAge' = [windowAge EXCEPT ![l][key] = 0]
       /\ history' = [history EXCEPT !.counted[l][key] = 0, !.recent[l][key] = NoneRecent,
                                     !.admitted[l][key] = 0]
       /\ calls' = Lapsed(l, key)
  /\ UNCHANGED <<pc, req, resp, ctx, store, nextId, authClient, env, page, scriptHistory>>

\* the admissions of the last WindowTicks instants, one instant later
Shift(recent) == [i \in 1..WindowTicks |-> IF i = 1 THEN 0 ELSE recent[i - 1]]

\* one tick of time passes: every open window grows older
Tick ==
  /\ windowAge' = [l \in Limiters |-> [key \in Ips |->
                     IF hits[l][key] > 0 /\ ~WindowOver(l, key)
                       THEN windowAge[l][key] + 1 ELSE windowAge[l][key]]]
  /\ history' = [history EXCEPT
                   !.recent = [l \in Limiters |-> [key \in Ips |-> Shift(history.recent[l][key])]]]
  /\ UNCHANGED <<pc, req, resp, ctx, calls, hits, store, nextId, authClient, env, page, scriptHistory>>

(***************************************************************************)
(* services/pythonService.ts: generatePodcastScript                        *)
(***************************************************************************)
\* what the script service can do with one call: a success status with a JSON
\* body (an array or not) or with a body that is no JSON, a failure status with
\* a JSON body (with or without an error field) or with a body that is no JSON,
\* or no answer at all
ServiceOutcomes ==
  {[kind |-> "ok", json |-> TRUE, body |-> Arr(s)] : s \in ServiceScripts}
    \cup {[kind |-> "ok", json |-> TRUE, body |-> [t |-> "object"]],
          [kind |-> "ok", json |-> FALSE, body |-> Undefined],
          [kind |-> "http", json |-> TRUE, status |-> 500, error |-> Str("research failed")],
          [kind |-> "http", json |-> TRUE, status |-> 502, error |-> Undefined],
          [kind |-> "http", json |-> FALSE, status |-> 503, error |-> Undefined],
          [kind |-> "throw", message |-> "fetch failed"]}

\* the message of the SyntaxError of response.json()
JsonSyntaxError == "Unexpected token < in JSON at position 0"

Returned(script) == [ok |-> TRUE, script |-> script, message |-> ""]

Thrown(message) == [ok |-> FALSE, script |-> << >>, message |-> message]

\* generatePodcastScript taking a failure status for an empty script
generatePodcastScriptIgnoringStatus(o) ==
  IF o.kind = "throw" THEN Thrown(o.message)
  ELSE IF o.kind = "http" THEN Returned(<< >>)
  ELSE IF ~o.json THEN Thrown(JsonSyntaxError)
  ELSE IF ~IsArray(o.body) THEN Thrown("Invalid script format: expected array")
  ELSE Returned(o.body.v)

\* response.json().catch(() => ({error: 'Unknown error'})) of a failure answer
ErrorData(o) == IF o.json THEN o.error ELSE Str("Unknown error")

\* generatePodcastScript from the answer of fetch on: the script or the Error thrown
generatePodcastScript(o) ==
  IF o.kind = "throw" THEN Thrown(o.message)
  ELSE IF o.kind = "http"
    THEN Thrown(IF Falsy(ErrorData(o)) THEN "HTTP error: " \o ToString(o.status)
                ELSE ErrorData(o).v)
  ELSE IF ~o.json THEN Thrown(JsonSyntaxError)
  ELSE IF ~IsArray(o.body) THEN Thrown("Invalid script format: expected array")
  ELSE Returned(o.body.v)

(***************************************************************************)
(* routes/generate-research.ts                                             *)
(***************************************************************************)
TopicInvalid(topic) ==
  Falsy(topic) \/ ~IsString(topic) \/ Len(Trim(topic.v)) = 0

\* the range check with its lower bound excluded
DurationInvalidExclusive(durationMinutes) ==
  \/ Falsy(durationMinutes)
  \/ ~IsNumber(durationMinutes)
  \/ NumLess(durationMinutes, MinDuration + 1)
  \/ NumGreater(durationMinutes, MaxDuration)

DurationInvalid(durationMinutes) ==
  \/ Falsy(durationMinutes)
  \/ ~IsNumber(durationMinutes)
  \/ NumLess(durationMinutes, MinDuration)
  \/ NumGreater(durationMinutes, MaxDuration)

StyleMissing(style) == Falsy(style) \/ ~IsString(style)

\* the membership test on the trimmed style
StyleUnknownTrimmed(style) == ~Includes(validStyles, ToLowerCase(Trim(style.v)))

StyleUnknown(style) == ~Includes(validStyles, ToLowerCase(style.v))

StyleListMessage == "Style must be one of: " \o Join(validStyles, ", ")

\* the validation of the handler: the 400 response, or NoResp when the body is valid
ResearchValidation(q) ==
  IF TopicInvalid(q.topic)
    THEN ErrorResp(400, "Topic is required and must be a non-empty string")
  ELSE IF DurationInvalid(q.durationMinutes)
    THEN ErrorResp(400, "Duration must be a number between 5 and 120 minutes")
  ELSE IF StyleMissing(q.style) THEN ErrorResp(400, "Style is required")
  ELSE IF StyleUnknown(q.style) THEN ErrorResp(400, StyleListMessage)
  ELSE NoResp

\* the request with the topic as it came
ScriptRequestRaw(q) ==
  [topic |-> q.topic.v, durationMinutes |-> q.durationMinutes,
   style |-> ToLowerCase(q.style.v)]

\* the request handed to generatePodcastScript
ScriptRequest(q) ==
  [topic |-> Trim(q.topic.v), durationMinutes |-> q.durationMinutes,
   style |-> ToLowerCase(q.style.v)]

\* the handler up to its await of generatePodcastScript
ResearchHandler(r) ==
  /\ pc[r] = "handler"
  /\ req[r].route = "research"
  /\ IF ResearchValidation(req[r]) # NoResp
       THEN /\ Respond(r, ResearchValidation(req[r]))
            /\ calls' = [Count(r, "responses") EXCEPT ![r].handler = @ + 1]
       ELSE /\ pc' = [pc EXCEPT ![r] = "generate"]
            /\ calls' = [calls EXCEPT ![r].handler = @ + 1, ![r].generate = @ + 1,
                                      ![r].sent = ScriptRequest(req[r])]
            /\ UNCHANGED resp
  /\ UNCHANGED <<req, ctx, hits, store, nextId, authClient, env, windowAge, page, scriptHistory, history>>

\* the response with the script in reverse order
ScriptRespReversed(script, savedId) ==
  [status |-> 200,
   body |-> [kind |-> "script",
             script |-> [i \in 1..Len(script) |-> script[Len(script) + 1 - i]],
             savedId |-> savedId]]

\* res.json({script, savedId})
ScriptResp(script, savedId) ==
  [status |-> 200, body |-> [kind |-> "script", script |-> script, savedId |-> savedId]]

\* the handler takes the save branch
WillSave(r) == routeSupabase /\ ctx[r].hasUser

\* the handler from the answer of generatePodcastScript to its await of the insert
\* a handler that starts the insert and sends the response without awaiting it
ResearchGeneratedUnawaited(r) ==
  /\ pc[r] = "generate"
  /\ \E o \in ServiceOutcomes :
       LET result == generatePodcastScript(o) IN
       IF ~result.ok
         THEN /\ Respond(r, ErrorResp(500, result.message))
              /\ calls' = [Count(r, "responses") EXCEPT ![r].upstream = o]
              /\ UNCHANGED ctx
         ELSE /\ ctx' = [ctx EXCEPT ![r].script = result.script]
              /\ IF WillSave(r)
                   THEN /\ pc' = [pc EXCEPT ![r] = "insert"]
                        /\ resp' = [resp EXCEPT ![r] = ScriptResp(result.script, Null)]
                        /\ calls' = [calls EXCEPT ![r].insert = @ + 1, ![r].responses = @ + 1,
                                                  ![r].upstream = o]
                   ELSE /\ Respond(r, ScriptResp(result.script, Null))
                        /\ calls' = [Count(r, "responses") EXCEPT ![r].upstream = o]
  /\ UNCHANGED <<req, hits, store, nextId, authClient, env, windowAge, page, scriptHistory, history>>

\* a handler that calls the script service a second time when the first call fails
ResearchGeneratedRetrying(r) ==
  /\ pc[r] = "generate"
  /\ \E o \in ServiceOutcomes :
       LET result == generatePodcastScript(o) IN
       IF ~result.ok /\ calls[r].generate = 1
         THEN /\ calls' = Count(r, "generate")
              /\ UNCHANGED <<pc, resp, ctx>>
       ELSE IF ~result.ok
         THEN /\ Respond(r, ErrorResp(500, result.message))
              /\ calls' = [Count(r, "responses") EXCEPT ![r].upstream = o]
              /\ UNCHANGED ctx
         ELSE /\ ctx' = [ctx EXCEPT ![r].script = result.script]
              /\ IF WillSave(r)
                   THEN /\ pc' = [pc EXCEPT ![r] = "insert"]
                        /\ calls' = [Count(r, "insert") EXCEPT ![r].upstream = o]
                        /\ UNCHANGED resp
                   ELSE /\ Respond(r, ScriptResp(result.script, Null))
                        /\ calls' = [Count(r, "responses") EXCEPT ![r].upstream = o]
  /\ UNCHANGED <<req, hits, store, nextId, authClient, env, windowAge, page, scriptHistory, history>>

ResearchGenerated(r) ==
  /\ pc[r] = "generate"
  /\ \E o \in ServiceOutcomes :
       LET result == generatePodcastScript(o) IN
       IF ~result.ok
         THEN /\ Respond(r, ErrorResp(500, result.message))
              /\ calls' = [Count(r, "responses") EXCEPT ![r].upstream = o]
              /\ UNCHANGED ctx
         ELSE /\ ctx' = [ctx EXCEPT ![r].script = result.script]
              /\ IF WillSave(r)
                   THEN /\ pc' = [pc EXCEPT ![r] = "insert"]
                        /\ calls' = [Count(r, "insert") EXCEPT ![r].upstream = o]
                        /\ UNCHANGED resp
                   ELSE /\ Respond(r, ScriptResp(result.script, Null))
                        /\ calls' = [Count(r, "responses") EXCEPT ![r].upstream = o]
  /\ UNCHANGED <<req, hits, store, nextId, authClient, env, windowAge, page, scriptHistory, history>>

IdOf(n) == "s" \o ToString(n)

\* the record with the topic and the style as they came in the body
ScriptRowRaw(r, n) ==
  [id |-> IdOf(n), user_id |-> ctx[r].user.id, topic |-> req[r].topic.v,
   duration_minutes |-> req[r].durationMinutes, style |-> req[r].style.v,
   script_data |-> ctx[r].script, created_at |-> n, updated_at |-> n]

\* the row the handler inserts, with the id and creation time the store gives it
ScriptRow(r, n) ==
  [id |-> IdOf(n), user_id |-> ctx[r].user.id, topic |-> Trim(req[r].topic.v),
   duration_minutes |-> req[r].durationMinutes, style |-> ToLowerCase(req[r].style.v),
   script_data |-> ctx[r].script, created_at |-> n, updated_at |-> n]

InsertOutcomes == {"ok", "error", "norow", "throw"}

\* duration_minutes INT NOT NULL: the column holds integers only.  A number that
\* is no integer is refused (the insert answers an error) or stored as one of
\* its two neighbours.
StoredDurations(x) == IF x.half THEN {Num(x.v), Num(x.v + 1)} ELSE {x}

\* savedScriptId taken from data whenever the insert reports no error and does not throw
SavedScriptIdUnchecked(outcome, n) ==
  IF outcome \in {"ok", "norow"} THEN Str(IdOf(n)) ELSE Null

\* savedScriptId after the insert answered {data, error} or threw
SavedScriptId(outcome, n) == IF outcome = "ok" THEN Str(IdOf(n)) ELSE Null

\* the handler from the answer of the insert to its response
ResearchSaved(r, rows) ==
  /\ pc[r] = "insert"
  /\ \E outcome \in InsertOutcomes :
       /\ outcome = "ok" => nextId <= rows
       /\ IF outcome = "ok"
            THEN /\ \E d \in StoredDurations(req[r].durationMinutes) :
                      store' = store \cup {[ScriptRow(r, nextId) EXCEPT !.duration_minutes = d]}
                 /\ nextId' = nextId + 1
            ELSE UNCHANGED <<store, nextId>>
       /\ calls' = [Count(r, "responses") EXCEPT
                      ![r].insertOutcome = outcome,
                      ![r].insertedId = IF outcome = "ok" THEN IdOf(nextId) ELSE ""]
       /\ Respond(r, ScriptResp(ctx[r].script, SavedScriptId(outcome, nextId)))
  /\ UNCHANGED <<req, ctx, hits, authClient, env, windowAge, page, scriptHistory, history>>

\* a limiter that gives the unit back when the response is an error
\* (skipFailedRequests)
FinishRefunding(r) ==
  /\ pc[r] = "done"
  /\ pc' = [pc EXCEPT ![r] = "idle"]
  /\ req' = [req EXCEPT ![r] = NoRequest]
  /\ resp' = [resp EXCEPT ![r] = NoResp]
  /\ ctx' = [ctx EXCEPT ![r] = NoCtx]
  /\ calls' = [calls EXCEPT ![r] = NoCalls]
  /\ hits' = IF calls[r].limiter > 0 /\ resp[r].status >= 400 /\ hits[req[r].route][req[r].ip] > 0
              THEN [hits EXCEPT ![req[r].route][req[r].ip] = @ - 1]
              ELSE hits
  /\ UNCHANGED <<store, nextId, authClient, env, windowAge, page, scriptHistory, history>>

\* the response has gone out and the slot is free again
Finish(r) ==
  /\ pc[r] = "done"
  /\ pc' = [pc EXCEPT ![r] = "idle"]
  /\ req' = [req EXCEPT ![r] = NoRequest]
  /\ resp' = [resp EXCEPT ![r] = NoResp]
  /\ ctx' = [ctx EXCEPT ![r] = NoCtx]
  /\ calls' = [calls EXCEPT ![r] = NoCalls]
  /\ UNCHANGED <<hits, store, nextId, authClient, env, windowAge, page, scriptHistory, history>>

(***************************************************************************)
(* services/elevenlabsService.ts: generateAudioFromScript                  *)
(***************************************************************************)
\* request.script.map((line) => line.text)
Texts(script) == [i \in 1..Len(script) |-> script[i].text]

\* .filter((text) => text.trim().length > 0) over strings
RECURSIVE NonBlank(_)
NonBlank(texts) ==
  IF Len(texts) = 0 THEN << >>
  ELSE IF Len(Trim(texts[1].v)) > 0 THEN <<texts[1].v>> \o NonBlank(Tail(texts))
  ELSE NonBlank(Tail(texts))

\* the texts trimmed one by one before they are joined
AllTextTrimmed(script) ==
  LET kept == NonBlank(Texts(script)) IN Join([i \in 1..Len(kept) |-> Trim(kept[i])], " ")

\* the text blob of a script whose texts are all strings
AllText(script) == Join(NonBlank(Texts(script)), " ")

\* voiceId: the default voice (ELEVENLABS_HOST_VOICE_ID, when set, replaces it
\* for every script alike)
HostVoiceId == "21m00Tcm4TlvDq8ikWAM"

Synthesize(text) == [ok |-> TRUE, text |-> text, message |-> ""]

AudioThrown(message) == [ok |-> FALSE, text |-> "", message |-> message]

\* generateAudioFromScript up to its await of generateSingleAudio: the text it
\* sends, or the Error it throws (text.trim() of a text that is no string is a
\* TypeError)
generateAudioFromScript(script) ==
  IF ~apiKey THEN AudioThrown("ELEVENLABS_API_KEY not configured")
  ELSE IF \E i \in 1..Len(script) : ~IsString(script[i].text)
    THEN AudioThrown("Cannot read properties of undefined (reading 'trim')")
  ELSE IF Len(Trim(AllText(script))) = 0 THEN AudioThrown("Script is empty")
  ELSE Synthesize(AllText(script))

\* what the speech service can do with one call
SpeechOutcomes ==
  {[kind |-> "ok"],
   [kind |-> "http", status |-> 401, text |-> "invalid key"],
   [kind |-> "throw", message |-> "fetch failed"]}

\* generateSingleAudio from the answer of fetch on: the Error thrown, if any
generateSingleAudio(o) ==
  IF o.kind = "ok" THEN Synthesize("")
  ELSE IF o.kind = "http"
    THEN AudioThrown("ElevenLabs API error: " \o ToString(o.status) \o " - " \o o.text)
  ELSE AudioThrown(o.message)

(***************************************************************************)
(* routes/generate-audio.ts                                                *)
(***************************************************************************)
\* the validation of the handler
ScriptInvalid(script) == Falsy(script) \/ ~IsArray(script)

\* res.send(audioBuffer) with the three headers
AudioResp ==
  [status |-> 200, body |-> [kind |-> "audio", contentType |-> "audio/mpeg"]]

\* a handler whose call of generateAudioFromScript is outside its try: the
\* exception of a line without a text string leaves the request unanswered
AudioHandlerUncaught(r) ==
  /\ pc[r] = "handler"
  /\ req[r].route = "audio"
  /\ LET script == req[r].script IN
     IF ScriptInvalid(script)
       THEN /\ Respond(r, ErrorResp(400, "Script array is required"))
            /\ calls' = [Count(r, "responses") EXCEPT ![r].handler = @ + 1]
            /\ UNCHANGED ctx
       ELSE LET result == generateAudioFromScript(script.v) IN
            IF ~result.ok
              THEN /\ pc' = [pc EXCEPT ![r] = "unanswered"]
                   /\ calls' = [calls EXCEPT ![r].handler = @ + 1]
                   /\ UNCHANGED <<resp, ctx>>
              ELSE /\ pc' = [pc EXCEPT ![r] = "speech"]
                   /\ ctx' = [ctx EXCEPT ![r].allText = result.text]
                   /\ calls' = [calls EXCEPT ![r].handler = @ + 1, ![r].speech = @ + 1,
                                             ![r].sent = [text |-> result.text,
                                                          voiceId |-> HostVoiceId]]
                   /\ UNCHANGED resp
  /\ UNCHANGED <<req, hits, store, nextId, authClient, env, windowAge, page, scriptHistory, history>>

\* the handler up to its await inside generateAudioFromScript
AudioHandler(r) ==
  /\ pc[r] = "handler"
  /\ req[r].route = "audio"
  /\ LET script == req[r].script IN
     IF ScriptInvalid(script)
       THEN /\ Respond(r, ErrorResp(400, "Script array is required"))
            /\ calls' = [Count(r, "responses") EXCEPT ![r].handler = @ + 1]
            /\ UNCHANGED ctx
       ELSE LET result == generateAudioFromScript(script.v) IN
            IF ~result.ok
              THEN /\ Respond(r, ErrorResp(500, result.message))
                   /\ calls' = [Count(r, "responses") EXCEPT ![r].handler = @ + 1]
                   /\ UNCHANGED ctx
              ELSE /\ pc' = [pc EXCEPT ![r] = "speech"]
                   /\ ctx' = [ctx EXCEPT ![r].allText = result.text]
                   /\ calls' = [calls EXCEPT ![r].handler = @ + 1, ![r].speech = @ + 1,
                                             ![r].sent = [text |-> result.text,
                                                          voiceId |-> HostVoiceId]]
                   /\ UNCHANGED resp
  /\ UNCHANGED <<req, hits, store, nextId, authClient, env, windowAge, page, scriptHistory, history>>

\* the handler from the answer of the speech service to its response
AudioGenerated(r) ==
  /\ pc[r] = "speech"
  /\ \E o \in SpeechOutcomes :
       LET result == generateSingleAudio(o) IN
       /\ Respond(r, IF result.ok THEN AudioResp ELSE ErrorResp(500, result.message))
       /\ calls' = Count(r, "responses")
  /\ UNCHANGED <<req, ctx, hits, store, nextId, authClient, env, windowAge, page, scriptHistory, history>>

(***************************************************************************)
(* The external store: table scripts behind the supabase query builder.    *)
(* The service key bypasses row level security, so the filters of a query  *)
(* are the only ownership check.                                           *)
(***************************************************************************)
\* the id filter alone, whoever owns the row
OwnedRowsAnyOwner(id, userId) == {row \in store : row.id = id}

\* .eq('id', id).eq('user_id', userId)
OwnedRows(id, userId) == {row \in store : row.id = id /\ row.user_id = userId}

\* .eq('user_id', userId)
RowsOf(userId) == {row \in store : row.user_id = userId}

OneOf(rows) == CHOOSE row \in rows : TRUE

NoRow == [id |-> ""]

\* .single(): exactly one row, or error PGRST116
Single(rows) ==
  IF Cardinality(rows) = 1
    THEN [data |-> OneOf(rows), error |-> "none"]
    ELSE [data |-> NoRow, error |-> "PGRST116"]

\* what the store can do with one query: answer it, answer with another
\* error (the connection, the database), or make the client throw
QueryOutcomes == {"answer", "error", "throw"}

\* {data, error} of a select ... single() under an outcome that does not throw
SelectSingle(rows, outcome) ==
  IF outcome = "answer" THEN Single(rows) ELSE [data |-> NoRow, error |-> "08006"]

\* the columns of select('id, topic, duration_minutes, style, created_at, updated_at')
Summary(row) ==
  [id |-> row.id, topic |-> row.topic, duration_minutes |-> row.duration_minutes,
   style |-> row.style, created_at |-> row.created_at, updated_at |-> row.updated_at]

\* the rows from the oldest to the newest
RECURSIVE OrderAsc(_)
OrderAsc(rows) ==
  IF rows = {} THEN << >>
  ELSE LET oldest == CHOOSE row \in rows : \A other \in rows : other.created_at >= row.created_at
       IN <<oldest>> \o OrderAsc(rows \ {oldest})

\* .order('created_at', {ascending: false})
RECURSIVE OrderDesc(_)
OrderDesc(rows) ==
  IF rows = {} THEN << >>
  ELSE LET newest == CHOOSE row \in rows : \A other \in rows : other.created_at <= row.created_at
       IN <<newest>> \o OrderDesc(rows \ {newest})

MapSummary(rows) == [i \in 1..Len(rows) |-> Summary(rows[i])]

(***************************************************************************)
(* routes/scripts.ts                                                       *)
(***************************************************************************)
\* the guard every scripts handler starts with
NotConfigured(r) == ~routeSupabase \/ ~ctx[r].hasUser

\* a scripts handler up to its first await: 500, or the query is sent
ScriptsHandler(r) ==
  /\ pc[r] = "handler"
  /\ req[r].route \in {"list", "get", "delete"}
  /\ IF NotConfigured(r)
       THEN /\ Respond(r, ErrorResp(500, "Database not configured"))
            /\ calls' = [Count(r, "responses") EXCEPT ![r].handler = @ + 1]
       ELSE /\ pc' = [pc EXCEPT ![r] = req[r].route]
            /\ calls' = [calls EXCEPT
                           ![r].handler = @ + 1, ![r].select = @ + 1,
                           ![r].owned = OwnedRows(req[r].id, ctx[r].user.id) # {},
                           ![r].again = <<req[r].id, ctx[r].user.id>> \in history.deleted]
            /\ UNCHANGED resp
  /\ UNCHANGED <<req, ctx, hits, store, nextId, authClient, env, windowAge, page, scriptHistory, history>>

\* GET /api/scripts from the answer of the select on
ListReply(r) ==
  /\ pc[r] = "list"
  /\ \E outcome \in QueryOutcomes :
       /\ Respond(r,
         IF outcome = "throw" THEN ErrorResp(500, "Internal server error")
         ELSE IF outcome = "error" THEN ErrorResp(500, "Failed to fetch scripts")
         ELSE [status |-> 200,
               body |-> [kind |-> "list",
                         scripts |-> MapSummary(OrderDesc(RowsOf(ctx[r].user.id)))]])
       /\ calls' = Answered(r, outcome)
  /\ UNCHANGED <<req, ctx, hits, store, nextId, authClient, env, windowAge, page, scriptHistory, history>>

\* the response of GET /api/scripts/:id to the answer {data, error} of the select
GetResponse(answer) ==
  IF answer.error # "none"
    THEN IF answer.error = "PGRST116" THEN ErrorResp(404, "Script not found")
         ELSE ErrorResp(500, "Failed to fetch script")
  ELSE IF answer.data = NoRow THEN ErrorResp(404, "Script not found")
  ELSE [status |-> 200, body |-> [kind |-> "record", record |-> answer.data]]

\* the select without its user_id filter
GetFilterAnyOwner(r) == {row \in store : row.id = req[r].id}

\* the rows the select of GET /api/scripts/:id asks for
GetFilter(r) == OwnedRows(req[r].id, ctx[r].user.id)

\* GET /api/scripts/:id from the answer of the select on
GetReply(r) ==
  /\ pc[r] = "get"
  /\ \E outcome \in QueryOutcomes :
       /\ Respond(r,
            IF outcome = "throw" THEN ErrorResp(500, "Internal server error")
            ELSE GetResponse(SelectSingle(GetFilter(r), outcome)))
       /\ calls' = Answered(r, outcome)
  /\ UNCHANGED <<req, ctx, hits, store, nextId, authClient, env, windowAge, page, scriptHistory, history>>

\* the rows the ownership select of DELETE /api/scripts/:id asks for
DeleteFetchFilter(r) == OwnedRows(req[r].id, ctx[r].user.id)

\* the delete filtering on the wrong column, so that it matches no row
DeleteFilterWrongColumn(r) == {row \in store : row.id = ctx[r].user.id /\ row.user_id = req[r].id}

\* the rows the delete of DELETE /api/scripts/:id removes
DeleteFilter(r) == OwnedRows(req[r].id, ctx[r].user.id)

\* DELETE /api/scripts/:id from the answer of the ownership select to the delete
DeleteFetched(r) ==
  /\ pc[r] = "delete"
  /\ \E outcome \in QueryOutcomes :
       IF outcome = "throw"
         THEN /\ Respond(r, ErrorResp(500, "Internal server error"))
              /\ calls' = Answered(r, outcome)
         ELSE LET answer == SelectSingle(DeleteFetchFilter(r), outcome) IN
              IF answer.error # "none" \/ answer.data = NoRow
                THEN /\ Respond(r, ErrorResp(404, "Script not found"))
                     /\ calls' = Answered(r, outcome)
                ELSE /\ pc' = [pc EXCEPT ![r] = "deleting"]
                     /\ calls' = Count(r, "delete")
                     /\ UNCHANGED resp
  /\ UNCHANGED <<req, ctx, hits, store, nextId, authClient, env, windowAge, page, scriptHistory, history>>

\* DELETE /api/scripts/:id from the answer of the delete on
DeleteReply(r) ==
  /\ pc[r] = "deleting"
  /\ \E outcome \in QueryOutcomes :
       /\ IF outcome = "answer"
            THEN store' = store \ DeleteFilter(r)
            ELSE UNCHANGED store
       /\ Respond(r,
            IF outcome = "throw" THEN ErrorResp(500, "Internal server error")
            ELSE IF outcome = "error" THEN ErrorResp(500, "Failed to delete script")
            ELSE [status |-> 200,
                  body |-> [kind |-> "message", message |-> "Script deleted successfully"]])
       /\ calls' = Answered(r, outcome)
       /\ history' = IF outcome = "answer"
                       THEN [history EXCEPT !.deleted = @ \cup {<<req[r].id, ctx[r].user.id>>}]
                       ELSE history
  /\ UNCHANGED <<req, ctx, hits, nextId, authClient, env, windowAge, page, scriptHistory>>

(***************************************************************************)
(* pages/PodcastGenerator.tsx: the form and handleGenerate.                *)
(***************************************************************************)
\* handleGenerate's limit on the duration
MAX_DURATION == 30

\* what the page leaves alone
server == <<pc, req, resp, ctx, calls, hits, store, nextId, envSupabase, routeSupabase,
            authClient, apiKey, windowAge, history>>

FormTopics == {"", "  ", " AI "}

\* setDuration(parseInt(e.target.value))
FormDurations == {Num(20), Num(MAX_DURATION), Num(MAX_DURATION + 1), NaN}

FormStyles == {"conversational", "storytelling"}

\* the user edits the form; its fields are disabled while loading
SetForm ==
  /\ page.at = "form"
  /\ ~page.loading
  /\ \E topic \in FormTopics, duration \in FormDurations, style \in FormStyles :
       page' = [page EXCEPT !.topic = topic, !.duration = duration, !.style = style]
  /\ UNCHANGED <<server, scriptHistory>>

\* getAccessToken(): the session's token, or null without a session
AccessTokens == {Null, Str("tokA")}

\* the body of the generate-research request
ResearchBody ==
  [topic |-> Trim(page.topic), durationMinutes |-> page.duration, style |-> page.style]

\* the submit button is enabled
CanSubmit == ~page.loading /\ Len(Trim(page.topic)) > 0

\* handleGenerate up to its await of the first fetch
HandleGenerate ==
  /\ page.at = "form"
  /\ CanSubmit
  /\ IF NumGreater(page.duration, MAX_DURATION)
       THEN page' = [page EXCEPT !.error = Str("Duration cannot exceed 30 minutes.")]
       ELSE \E token \in AccessTokens :
              LET started == [page EXCEPT !.error = Null, !.script = Null, !.audioUrl = Null,
                                          !.token = token, !.data = Undefined,
                                          !.researchSent = 0, !.researchBody = Undefined,
                                          !.researchAnswer = Undefined,
                                          !.audioSent = 0, !.audioBody = Undefined] IN
              IF Falsy(token)
                THEN page' = [started EXCEPT !.error = Str("Not authenticated"),
                                             !.loading = FALSE, !.loadingStep = ""]
                ELSE page' = [started EXCEPT !.at = "research", !.loading = TRUE,
                                             !.loadingStep = "Generating script...",
                                             !.researchSent = 1,
                                             !.researchBody = ResearchBody]
  /\ UNCHANGED <<server, scriptHistory>>

\* what a fetch can end with: it rejects, or it resolves with a response
FetchFailed == [kind |-> "throw", message |-> "Failed to fetch"]

Fetched(response) == [kind |-> "response", response |-> response]

TooMany(l) == [status |-> 429, body |-> [kind |-> "text", text |-> LimiterMessage(l)]]

\* the answers to the generate-research request: the server's responses, and a
\* success status with a body that is no JSON
ResearchAnswers ==
  {FetchFailed}
    \cup {Fetched(ScriptResp(script, Null)) : script \in ServiceScripts}
    \cup {Fetched(ScriptResp(<<HostLine>>, Str(IdOf(1)))),
          Fetched(ErrorResp(400, "Style is required")),
          Fetched(ErrorResp(500, "research failed")),
          Fetched(ErrorResp(502, "")),
          Fetched(TooMany("research")),
          Fetched([status |-> 200, body |-> [kind |-> "text", text |-> "<html>"]])}

\* the answers to the generate-audio request
AudioAnswers ==
  {FetchFailed, Fetched(AudioResp), Fetched(ErrorResp(500, "Script is empty")),
   Fetched(TooMany("audio"))}

\* a response whatever its status
ResponseOkAlways(response) == TRUE

\* response.ok
ResponseOk(response) == response.status \in 200..299

\* response.json() resolves
IsJson(body) == body.kind # "text"

\* the message of the Error thrown for a response that is not ok
HttpErrorMessage(response) ==
  IF ~IsJson(response.body) THEN "Unknown error"
  ELSE IF "error" \in DOMAIN response.body /\ response.body.error # ""
    THEN response.body.error
  ELSE "HTTP error: " \o ToString(response.status)

\* data.script
DataScript(body) == IF "script" \in DOMAIN body THEN Arr(body.script) ELSE Undefined

\* the catch of handleGenerate without its finally
FailedWithoutFinally(message) == [page EXCEPT !.at = "form", !.error = Str(message)]

\* catch and finally of handleGenerate
Failed(message) ==
  [page EXCEPT !.at = "form", !.error = Str(message), !.loading = FALSE, !.loadingStep = ""]

\* handleGenerate from the answer of the first fetch to its await of the second
ResearchFetched ==
  /\ page.at = "research"
  /\ \E answer \in ResearchAnswers :
       LET got == [page EXCEPT !.researchAnswer = answer] IN
       IF answer.kind = "throw"
         THEN page' = [Failed(answer.message) EXCEPT !.researchAnswer = answer]
       ELSE IF ~ResponseOk(answer.response)
         THEN page' = [Failed(HttpErrorMessage(answer.response)) EXCEPT !.researchAnswer = answer]
       ELSE IF ~IsJson(answer.response.body)
         THEN page' = [Failed(JsonSyntaxError) EXCEPT !.researchAnswer = answer]
       ELSE page' = [got EXCEPT !.at = "audio",
                                !.data = answer.response.body,
                                !.script = DataScript(answer.response.body),
                                !.loadingStep = "Generating audio (this may take a minute)...",
                                !.audioSent = @ + 1,
                                !.audioBody = [script |-> DataScript(answer.response.body)]]
  /\ UNCHANGED <<server, scriptHistory>>

\* handleGenerate from the answer of the second fetch to its end
AudioFetched ==
  /\ page.at = "audio"
  /\ \E answer \in AudioAnswers :
       IF answer.kind = "throw" THEN page' = Failed(answer.message)
       ELSE IF ~ResponseOk(answer.response)
         THEN page' = Failed(HttpErrorMessage(answer.response))
       ELSE page' = [page EXCEPT !.at = "form", !.audioUrl = Str("blob:audio"),
                                 !.loading = FALSE, !.loadingStep = ""]
  /\ UNCHANGED <<server, scriptHistory>>

(***************************************************************************)
(* pages/ScriptHistory.tsx                                                 *)
(***************************************************************************)
\* the ScriptSummary of the n-th record the user saved; the page reads its id
\* when it deletes
ScriptSummary(n) == [id |-> IdOf(n)]

\* the first k records the user saved, newest first, as GET /api/scripts lists them
Newest(k) == [i \in 1..k |-> ScriptSummary(k - i + 1)]

\* what GET /api/scripts can answer with
ListAnswers ==
  {FetchFailed, Fetched(ErrorResp(500, "Failed to fetch scripts"))}
    \cup {Fetched([status |-> 200, body |-> [kind |-> "list", scripts |-> Newest(k)]]) :
            k \in 0..MaxRecords}

\* fetchScripts from the answer of its fetch to its end; without a token it
\* ends with 'Not authenticated'
FetchScripts ==
  /\ scriptHistory.loading
  /\ \E token \in AccessTokens : \E answer \in ListAnswers :
       IF Falsy(token)
         THEN scriptHistory' = [scriptHistory EXCEPT !.error = Str("Not authenticated"),
                                                     !.loading = FALSE]
       ELSE IF answer.kind = "throw"
         THEN scriptHistory' = [scriptHistory EXCEPT !.error = Str(answer.message),
                                                     !.loading = FALSE]
       ELSE IF ~ResponseOk(answer.response)
         THEN scriptHistory' = [scriptHistory EXCEPT !.error = Str("Failed to fetch scripts"),
                                                     !.loading = FALSE]
       ELSE scriptHistory' = [scriptHistory EXCEPT !.scripts = answer.response.body.scripts,
                                                   !.loading = FALSE]
  /\ UNCHANGED <<server, page>>

\* the ids of the rows the page shows
Shown == {scriptHistory.scripts[i].id : i \in 1..Len(scriptHistory.scripts)}

\* handleDeleteScript(id) up to its await of the fetch: the user pressed Delete
\* on a row that is shown and confirmed, and there is a token.  The call keeps
\* the scripts of the render whose button was pressed.
HandleDeleteScript(d) ==
  /\ ~scriptHistory.loading
  /\ scriptHistory.deleting[d].at = "idle"
  /\ \E id \in Shown :
       scriptHistory' = [scriptHistory EXCEPT
                           !.deleting[d] = [at |-> "fetch", id |-> id,
                                            scripts |-> scriptHistory.scripts]]
  /\ UNCHANGED <<server, page>>

\* what DELETE /api/scripts/:id can answer with: success for a record that is
\* still there, 404 or 500 or no answer
DeleteAnswers(id) ==
  {FetchFailed, Fetched(ErrorResp(404, "Script not found")),
   Fetched(ErrorResp(500, "Failed to delete script"))}
    \cup (IF id \in scriptHistory.deleted THEN {}
          ELSE {Fetched([status |-> 200, body |-> [kind |-> "deleted"]])})

\* scripts.filter(s => s.id !== id)
WithoutScript(scripts, id) == SelectSeq(scripts, LAMBDA s : s.id # id)

\* handleDeleteScript from the answer of its fetch to its end
DeleteAnswered(d) ==
  /\ scriptHistory.deleting[d].at = "fetch"
  /\ LET call == scriptHistory.deleting[d] IN
     \E answer \in DeleteAnswers(call.id) :
       IF answer.kind = "throw"
         THEN scriptHistory' = [scriptHistory EXCEPT !.error = Str(answer.message),
                                                     !.deleting[d] = NoDelete]
       ELSE IF ~ResponseOk(answer.response)
         THEN scriptHistory' = [scriptHistory EXCEPT !.error = Str("Failed to delete script"),
                                                     !.deleting[d] = NoDelete]
       ELSE scriptHistory' = [scriptHistory EXCEPT
                                !.scripts = WithoutScript(call.scripts, call.id),
                                !.deleted = @ \cup {call.id},
                                !.deleting[d] = NoDelete]
  /\ UNCHANGED <<server, page>>

(***************************************************************************)
(* Request bodies and headers the specifications draw from.                *)
(***************************************************************************)
NoHeader == Undefined

BearerA == Str("Bearer tokA")

BearerB == Str("Bearer tokB")

Headers ==
  {NoHeader, Str("Basic abc"), Str("Bearer "), BearerA, Str("Bearer stale"), Str("Bearer tokNone")}

Topics == {Undefined, Str("  "), Str(" AI ")}

Durations ==
  {Undefined, Str("10"), NaN, Num(0), Num(MinDuration - 1), NumHalf(MinDuration - 1),
   Num(MinDuration), Num(MaxDuration), NumHalf(MaxDuration), Num(MaxDuration + 1)}

Styles ==
  {Undefined, Str(""), Num(3), Str("Conversational"), Str("STORYTELLING"), Str("jazz"),
   Str(" educational")}

AudioScripts ==
  {Undefined, Str("Welcome"), Arr(<< >>), Arr(<<BlankLine>>), Arr(<<BlankLine, BlankLine>>),
   Arr(<<HostLine>>), Arr(<<HostLine, BlankLine, GuestLine>>), Arr(<<HostLine, NoTextLine>>)}

ValidTopic == Str(" AI ")

ValidStyle == Str("Conversational")

RecordIds(rows) == {IdOf(n) : n \in 1..rows} \cup {"none"}

\* the request in flight in the specifications that take one request at a time
One == {1}

\* every credential is set
Configured == envSupabase /\ routeSupabase /\ apiKey

(***************************************************************************)
(* Specification Spec: generate-research requests with every kind of       *)
(* body, one at a time.                                                    *)
(***************************************************************************)
ResearchInputs == ResearchRequests({"ip1"}, {BearerA}, Topics, Durations, Styles)

InitResearch == Init /\ apiKey

Next ==
  \/ \E r \in One : Arrive(r, ResearchInputs, FewHits)
  \/ \E r \in One : AuthMiddleware(r)
  \/ \E r \in One : AuthGetUserReply(r)
  \/ \E r \in One : LimiterIncrement(r)
  \/ \E r \in One : LimiterCheck(r)
  \/ \E r \in One : ResearchHandler(r)
  \/ \E r \in One : ResearchGenerated(r)
  \/ \E r \in One : ResearchSaved(r, FewRecords)
  \/ \E r \in One : Finish(r)
  \/ ResetWindow

Spec == InitResearch /\ [][Next]_vars

(***************************************************************************)
(* Specification SpecGate: requests to every route with every kind of      *)
(* Authorization header, one at a time.                                    *)
(***************************************************************************)
GateInputs ==
  ResearchRequests({"ip1"}, Headers, {ValidTopic}, {Num(MinDuration)}, {ValidStyle})
    \cup AudioRequests({"ip1"}, Headers, AudioScripts)
    \cup ScriptsRequests({"list", "get", "delete"}, {"ip1"}, Headers, RecordIds(FewRecords))

NextGate ==
  \/ \E r \in One : Arrive(r, GateInputs, FewHits)
  \/ \E r \in One : AuthMiddleware(r)
  \/ \E r \in One : AuthGetUserReply(r)
  \/ \E r \in One : LimiterIncrement(r)
  \/ \E r \in One : LimiterCheck(r)
  \/ \E r \in One : ResearchHandler(r)
  \/ \E r \in One : ResearchGenerated(r)
  \/ \E r \in One : ResearchSaved(r, FewRecords)
  \/ \E r \in One : AudioHandler(r)
  \/ \E r \in One : AudioGenerated(r)
  \/ \E r \in One : ScriptsHandler(r)
  \/ \E r \in One : ListReply(r)
  \/ \E r \in One : GetReply(r)
  \/ \E r \in One : DeleteFetched(r)
  \/ \E r \in One : DeleteReply(r)
  \/ \E r \in One : Finish(r)
  \/ ResetWindow

SpecGate == Init /\ [][NextGate]_vars

\* the next step of the request in slot r: a middleware or a handler runs, or
\* the continuation of an awaited call runs with what the call returned or threw
Step(r) ==
  \/ AuthMiddleware(r)
  \/ AuthGetUserReply(r)
  \/ LimiterIncrement(r)
  \/ LimiterCheck(r)
  \/ ResearchHandler(r)
  \/ ResearchGenerated(r)
  \/ ResearchSaved(r, FewRecords)
  \/ AudioHandler(r)
  \/ AudioGenerated(r)
  \/ ScriptsHandler(r)
  \/ ListReply(r)
  \/ GetReply(r)
  \/ DeleteFetched(r)
  \/ DeleteReply(r)

(***************************************************************************)
(* Specification SpecAnswer: requests that take every path through         *)
(* authMiddleware and through each handler, one at a time, where every     *)
(* awaited call returns or throws and the event loop runs every            *)
(* continuation that is ready.                                             *)
(***************************************************************************)
AnswerInputs ==
  ScriptsRequests({"list"}, {"ip1"}, Headers, {"none"})
    \cup ScriptsRequests({"get", "delete"}, {"ip1"}, {BearerA}, RecordIds(FewRecords))
    \cup ResearchRequests({"ip1"}, {BearerA}, {ValidTopic, Str("  ")}, {Num(MinDuration)},
                          {ValidStyle})
    \cup AudioRequests({"ip1"}, {BearerA},
                       {Undefined, Arr(<< >>), Arr(<<HostLine>>), Arr(<<HostLine, NoTextLine>>)})

NextAnswer ==
  \/ \E r \in One : Arrive(r, AnswerInputs, FewHits)
  \/ \E r \in One : Step(r)
  \/ \E r \in One : Finish(r)

SpecAnswer == Init /\ [][NextAnswer]_vars /\ \A r \in One : WF_vars(Step(r))

(***************************************************************************)
(* Specification SpecLimit: enough requests of one client to exceed both   *)
(* limiters, every credential set.                                         *)
(***************************************************************************)
LimitInputs ==
  ResearchRequests({"ip1"}, {BearerA}, {ValidTopic}, {Num(MinDuration), Num(0)}, {ValidStyle})
    \cup AudioRequests({"ip1"}, {BearerA}, {Undefined, Arr(<<HostLine>>)})

InitConfigured == Init /\ Configured

\* the limiter of a request's route may count up to HitsOverMax beyond its max
ArriveLimit(r) ==
  \E l \in Limiters :
    Arrive(r, {q \in LimitInputs : q.route = l}, LimiterMax(l) + HitsOverMax)

NextLimit ==
  \/ \E r \in One : ArriveLimit(r)
  \/ \E r \in One : AuthMiddleware(r)
  \/ \E r \in One : AuthGetUserReply(r)
  \/ \E r \in One : LimiterIncrement(r)
  \/ \E r \in One : LimiterCheck(r)
  \/ \E r \in One : ResearchHandler(r)
  \/ \E r \in One : ResearchGenerated(r)
  \/ \E r \in One : ResearchSaved(r, FewRecords)
  \/ \E r \in One : AudioHandler(r)
  \/ \E r \in One : AudioGenerated(r)
  \/ \E r \in One : Finish(r)
  \/ ResetWindow

SpecLimit == InitConfigured /\ [][NextLimit]_vars

(***************************************************************************)
(* Specification SpecScripts: two users create, list, read and delete      *)
(* script records, every credential set.                                   *)
(***************************************************************************)
ScriptsInputs ==
  ResearchRequests({"ip1"}, {BearerA, BearerB}, {ValidTopic}, {Num(MinDuration)}, {ValidStyle})
    \cup ScriptsRequests({"list", "get", "delete"}, {"ip1"}, {BearerA, BearerB},
                         RecordIds(MaxRecords))

NextScripts ==
  \/ \E r \in One : Arrive(r, ScriptsInputs, FewHits)
  \/ \E r \in One : AuthMiddleware(r)
  \/ \E r \in One : AuthGetUserReply(r)
  \/ \E r \in One : LimiterIncrement(r)
  \/ \E r \in One : LimiterCheck(r)
  \/ \E r \in One : ResearchHandler(r)
  \/ \E r \in One : ResearchGenerated(r)
  \/ \E r \in One : ResearchSaved(r, MaxRecords)
  \/ \E r \in One : ScriptsHandler(r)
  \/ \E r \in One : ListReply(r)
  \/ \E r \in One : GetReply(r)
  \/ \E r \in One : DeleteFetched(r)
  \/ \E r \in One : DeleteReply(r)
  \/ \E r \in One : Finish(r)
  \/ ResetWindow

SpecScripts == InitConfigured /\ [][NextScripts]_vars

(***************************************************************************)
(* Specification SpecAudio: generate-audio requests with scripts whose     *)
(* lines differ in text, padding, speaker and effect, one at a time.       *)
(***************************************************************************)
SpokenScripts ==
  {Arr(<< >>), Arr(<<HostLine>>), Arr(<<EchoLine>>), Arr(<<GuestLine, HostLine>>),
   Arr(<<HostLine, BlankLine, GuestLine>>), Arr(<<PaddedLine, HostLine>>),
   Arr(<<BlankLine, PaddedLine, BlankLine, EchoLine>>), Arr(<<HostLine, NoTextLine>>)}

AudioInputs == AudioRequests({"ip1"}, {BearerA}, SpokenScripts)

NextAudio ==
  \/ \E r \in One : Arrive(r, AudioInputs, FewHits)
  \/ \E r \in One : AuthMiddleware(r)
  \/ \E r \in One : AuthGetUserReply(r)
  \/ \E r \in One : LimiterIncrement(r)
  \/ \E r \in One : LimiterCheck(r)
  \/ \E r \in One : AudioHandler(r)
  \/ \E r \in One : AudioGenerated(r)
  \/ \E r \in One : Finish(r)
  \/ ResetWindow

SpecAudio == Init /\ [][NextAudio]_vars

(***************************************************************************)
(* Specification SpecWindow: generate-research requests of one client      *)
(* while time passes; a window ends when its time is over.  The requests   *)
(* fail the handler's validation, so that each ends in the handler.        *)
(***************************************************************************)
WindowInputs ==
  ResearchRequests({"ip1"}, {BearerA}, {ValidTopic}, {Num(0)}, {ValidStyle})

NextWindow ==
  \/ \E r \in One : Arrive(r, WindowInputs, GenerateMax + HitsOverMax)
  \/ \E r \in One : AuthMiddleware(r)
  \/ \E r \in One : AuthGetUserReply(r)
  \/ \E r \in One : LimiterIncrement(r)
  \/ \E r \in One : LimiterCheck(r)
  \/ \E r \in One : ResearchHandler(r)
  \/ \E r \in One : Finish(r)
  \/ Tick

SpecWindow == InitConfigured /\ [][NextWindow]_vars

(***************************************************************************)
(* Specification SpecKeys: two clients and the two limited routes; the     *)
(* first client makes enough requests to exceed both limiters.  The        *)
(* requests fail the handlers' validation, so that each ends in the        *)
(* handler.                                                                *)
(***************************************************************************)
KeysInputs ==
  ResearchRequests(Ips, {BearerA}, {ValidTopic}, {Num(0)}, {ValidStyle})
    \cup AudioRequests(Ips, {BearerA}, {Undefined})

\* the first client may be counted up to HitsOverMax beyond a limiter's max, the
\* second one FewHits times
ArriveKeys(r) ==
  \E l \in Limiters, ip \in Ips :
    Arrive(r, {q \in KeysInputs : q.route = l /\ q.ip = ip},
           IF ip = "ip1" THEN LimiterMax(l) + HitsOverMax ELSE FewHits)

NextKeys ==
  \/ \E r \in One : ArriveKeys(r)
  \/ \E r \in One : AuthMiddleware(r)
  \/ \E r \in One : AuthGetUserReply(r)
  \/ \E r \in One : LimiterIncrement(r)
  \/ \E r \in One : LimiterCheck(r)
  \/ \E r \in One : ResearchHandler(r)
  \/ \E r \in One : AudioHandler(r)
  \/ \E r \in One : Finish(r)
  \/ ResetWindow

SpecKeys == InitConfigured /\ [][NextKeys]_vars

(***************************************************************************)
(* Specification SpecRace: two requests of one client in flight at once on *)
(* the two limited routes, their steps interleaved in every order; the     *)
(* client makes enough requests to exceed both limiters.  The requests     *)
(* fail the handlers' validation, so that each ends in the handler.        *)
(***************************************************************************)
RaceInputs ==
  ResearchRequests({"ip1"}, {BearerA}, {ValidTopic}, {Num(0)}, {ValidStyle})
    \cup AudioRequests({"ip1"}, {BearerA}, {Undefined})

\* a limiter may count up to HitsOverMax beyond its max
ArriveRace(r) ==
  \E l \in Limiters :
    Arrive(r, {q \in RaceInputs : q.route = l}, LimiterMax(l) + HitsOverMax)

NextRace ==
  \/ \E r \in Slots : ArriveRace(r)
  \/ \E r \in Slots : AuthMiddleware(r)
  \/ \E r \in Slots : AuthGetUserReply(r)
  \/ \E r \in Slots : LimiterIncrement(r)
  \/ \E r \in Slots : LimiterCheck(r)
  \/ \E r \in Slots : ResearchHandler(r)
  \/ \E r \in Slots : AudioHandler(r)
  \/ \E r \in Slots : Finish(r)
  \/ ResetWindow

SpecRace == InitConfigured /\ [][NextRace]_vars

(***************************************************************************)
(* Specification SpecRows: generate-research requests of two users whose   *)
(* bodies pass or fail each validation, every credential set, and the rows *)
(* they leave in the table.                                                *)
(***************************************************************************)
RowTopics == {Str("  "), Str(" AI ")}

RowDurations ==
  {Num(MinDuration - 1), Num(MinDuration), NumHalf(MinDuration), Num(MaxDuration),
   Num(MaxDuration + 1)}

RowStyles == {Str("STORYTELLING"), Str("jazz"), Str(" educational")}

RowsInputs ==
  ResearchRequests({"ip1"}, {BearerA, BearerB}, RowTopics, RowDurations, RowStyles)

NextRows ==
  \/ \E r \in One : Arrive(r, RowsInputs, FewHits)
  \/ \E r \in One : AuthMiddleware(r)
  \/ \E r \in One : AuthGetUserReply(r)
  \/ \E r \in One : LimiterIncrement(r)
  \/ \E r \in One : LimiterCheck(r)
  \/ \E r \in One : ResearchHandler(r)
  \/ \E r \in One : ResearchGenerated(r)
  \/ \E r \in One : ResearchSaved(r, FewRecords)
  \/ \E r \in One : Finish(r)
  \/ ResetWindow

SpecRows == InitConfigured /\ [][NextRows]_vars

(***************************************************************************)
(* Specification SpecHistory: the ScriptHistory page with up to two        *)
(* deletes under way at once, and the server as the answers its requests   *)
(* can get.                                                                *)
(***************************************************************************)
NextHistory ==
  \/ FetchScripts
  \/ \E d \in Deletes : HandleDeleteScript(d)
  \/ \E d \in Deletes : DeleteAnswered(d)

SpecHistory == InitConfigured /\ [][NextHistory]_vars

(***************************************************************************)
(* Specification SpecQuota: one window of one client on the two limited    *)
(* routes.  While a limiter has counted fewer than max requests the client *)
(* sends bodies that the handler refuses (400) or fails on (500); once it  *)
(* has counted max, the client sends a valid body.                         *)
(***************************************************************************)
RefusedInputs ==
  ResearchRequests({"ip1"}, {BearerA}, {ValidTopic, Str("  ")}, {Num(0)}, {ValidStyle})
    \cup AudioRequests({"ip1"}, {BearerA}, {Undefined, Arr(<< >>)})

ValidInputs ==
  ResearchRequests({"ip1"}, {BearerA}, {ValidTopic}, {Num(MinDuration)}, {ValidStyle})
    \cup AudioRequests({"ip1"}, {BearerA}, {Arr(<<HostLine>>)})

ArriveQuota(r) ==
  \E l \in Limiters :
    Arrive(r, {q \in (IF hits[l]["ip1"] < LimiterMax(l) THEN RefusedInputs ELSE ValidInputs) :
                 q.route = l},
           LimiterMax(l) + HitsOverMax)

NextQuota ==
  \/ \E r \in One : ArriveQuota(r)
  \/ \E r \in One : AuthMiddleware(r)
  \/ \E r \in One : AuthGetUserReply(r)
  \/ \E r \in One : LimiterIncrement(r)
  \/ \E r \in One : LimiterCheck(r)
  \/ \E r \in One : ResearchHandler(r)
  \/ \E r \in One : AudioHandler(r)
  \/ \E r \in One : Finish(r)

SpecQuota == InitConfigured /\ [][NextQuota]_vars

(***************************************************************************)
(* Specification SpecBrowser: the PodcastGenerator page, with the server   *)
(* as the answers its two requests can get.                                *)
(***************************************************************************)
NextBrowser ==
  \/ SetForm
  \/ HandleGenerate
  \/ ResearchFetched
  \/ AudioFetched

SpecBrowser == InitConfigured /\ [][NextBrowser]_vars

\* the page where each of the two fetches returns or throws and the rest of
\* handleGenerate then runs
SpecBrowserFair == SpecBrowser /\ WF_vars(ResearchFetched) /\ WF_vars(AudioFetched)

(***************************************************************************)
(* Claims.                                                                 *)
(***************************************************************************)
Done(r) == pc[r] = "done"

\* the request in slot r has made no call to the identity provider, a limiter,
\* the script service, the speech service or the store
NoOutsideCall(r) ==
  /\ calls[r].getUser = 0
  /\ calls[r].limiter = 0
  /\ calls[r].generate = 0
  /\ calls[r].speech = 0
  /\ calls[r].insert = 0
  /\ calls[r].select = 0
  /\ calls[r].delete = 0

Twice(x) == 2 * x.v + (IF x.half THEN 1 ELSE 0)

\* x is a number in [MinDuration, MaxDuration]
InRange(x) ==
  x.t = "number" /\ 2 * MinDuration <= Twice(x) /\ Twice(x) <= 2 * MaxDuration

\* the request in slot r has been handed to its route handler
Handled(r) == calls[r].handler = 1

AllowedStyles ==
  {"conversational", "documentary", "investigative", "educational", "storytelling"}

\* a topic and a style the route accepts
TopicOk(q) == q.topic = Str(" AI ")

StyleOk(q) == q.style \in {Str("Conversational"), Str("STORYTELLING")}

DurationMessage == "Duration must be a number between 5 and 120 minutes"

\* C2: a generate-research request that reached the handler with a
\* durationMinutes that is not a number in [5,120] is answered 400 and causes no
\* script-service call and no insert; 5 and 120 pass the duration check, and with
\* a valid topic and style the script service is called.
C2_DurationRange ==
  \A r \in Slots :
    (req[r].route = "research" /\ Handled(r)) =>
      /\ ~InRange(req[r].durationMinutes) =>
           /\ Done(r)
           /\ resp[r].status = 400
           /\ calls[r].generate = 0
           /\ calls[r].insert = 0
      /\ req[r].durationMinutes \in {Num(5), Num(120)} =>
           /\ resp[r] # ErrorResp(400, DurationMessage)
           /\ (TopicOk(req[r]) /\ StyleOk(req[r])) =>
                (calls[r].generate = 1 /\ resp[r].status # 400)

C2_Witness ==
  \E r \in Slots :
    /\ Done(r)
    /\ Handled(r)
    /\ TopicOk(req[r])
    /\ req[r].durationMinutes = NumHalf(120)
    /\ resp[r] = ErrorResp(400, DurationMessage)

\* sub occurs in s
Contains(s, sub) ==
  \E i \in 1..(Len(s) - Len(sub) + 1) : SubSeq(s, i, i + Len(sub) - 1) = sub

\* the message names every allowed style
ListsAllowed(msg) == \A style \in AllowedStyles : Contains(msg, style)

\* the style is not, after lower-casing, one of the allowed styles
StyleNotAllowed(style) == ~(style.t = "string" /\ ToLowerCase(style.v) \in AllowedStyles)

\* a generate-research request whose topic and duration are valid was answered
StyleDecided(r) ==
  /\ req[r].route = "research"
  /\ Handled(r)
  /\ Done(r)
  /\ TopicOk(req[r])
  /\ InRange(req[r].durationMinutes)

NothingToSpeak(script) ==
  /\ script.t = "array"
  /\ \A i \in 1..Len(script.v) :
       /\ script.v[i].text.t = "string"
       /\ \A k \in 1..Len(script.v[i].text.v) : CharAt(script.v[i].text.v, k) = " "

\* C4 as stated: with the speech service's key set, generate-audio answers 400
\* to the empty array and to an array of whitespace-only lines, and does not call
\* the speech service.
C4_Claim ==
  \A r \in Slots :
    (req[r].route = "audio" /\ Handled(r) /\ Done(r) /\ apiKey
       /\ NothingToSpeak(req[r].script)) =>
      (resp[r].status = 400 /\ calls[r].speech = 0)

\* the script service answered the request in slot r with an array
Generated(r) ==
  /\ req[r].route = "research"
  /\ calls[r].upstream # Undefined
  /\ calls[r].upstream.kind = "ok"
  /\ calls[r].upstream.body.t = "array"

\* C5: once the script service has returned a script, a failed insert (an error,
\* no row, or an exception) and a store that is not configured both leave the
\* response at 200 with the generated script and savedId null.
C5_SaveFailureStill200 ==
  \A r \in Slots :
    (Generated(r) /\ Done(r) /\ calls[r].insertOutcome # "ok") =>
      /\ calls[r].insertOutcome = "none" <=> ~routeSupabase
      /\ resp[r].status = 200
      /\ resp[r].body.kind = "script"
      /\ resp[r].body.script = calls[r].upstream.body.v
      /\ resp[r].body.savedId = Null

C5_Witness ==
  \E r \in Slots :
    /\ Generated(r)
    /\ Done(r)
    /\ calls[r].insertOutcome = "throw"
    /\ Len(calls[r].upstream.body.v) = 2
    /\ resp[r].status = 200
    /\ resp[r].body.savedId = Null

\* C6: when the script service returns an array of N lines, the response is 200,
\* its script is that sequence (length N, same lines, same order), and its savedId
\* is the id of the row the insert created when the insert succeeded, else null.
C6_ScriptPassedThrough ==
  \A r \in Slots :
    (Generated(r) /\ Done(r)) =>
      LET lines == calls[r].upstream.body.v IN
      /\ resp[r].status = 200
      /\ Len(resp[r].body.script) = Len(lines)
      /\ \A i \in 1..Len(lines) : resp[r].body.script[i] = lines[i]
      /\ IF calls[r].insertOutcome = "ok"
           THEN /\ resp[r].body.savedId = Str(calls[r].insertedId)
                /\ \E row \in store :
                     row.id = resp[r].body.savedId.v /\ row.script_data = lines
           ELSE resp[r].body.savedId = Null

C6_Witness ==
  \E r \in Slots :
    /\ Generated(r)
    /\ Done(r)
    /\ calls[r].upstream.body.v = <<GuestLine, HostLine>>
    /\ resp[r].body.script = <<GuestLine, HostLine>>
    /\ calls[r].insertOutcome = "ok"
    /\ resp[r].body.savedId = Str(IdOf(1))

\* the limiter of its route has decided on the request in slot r
Decided(r) ==
  /\ req[r].route \in Limiters
  /\ pc[r] \notin {"idle", "auth", "verify", "limiter", "limitcheck"}

\* the request in slot r was passed to its route handler
Passed(r) == (pc[r] = "handler" \/ Handled(r)) /\ resp[r].status # 429

\* C7: of the authenticated generate-research requests one client makes in one
\* window, the first 10 are passed to the handler and the 11th is answered 429.
C7_EleventhIs429 ==
  \A r \in Slots :
    (Decided(r) /\ req[r].route = "research") =>
      /\ calls[r].ordinal \in 1..10 => Passed(r)
      /\ calls[r].ordinal = 11 => (Done(r) /\ resp[r].status = 429 /\ ~Handled(r))

C7_Witness ==
  \E r \in Slots :
    /\ Done(r)
    /\ req[r].route = "research"
    /\ calls[r].ordinal = 11
    /\ resp[r].status = 429

\* the limiter of its route has counted the request in slot r beyond its max
Rejected(r) ==
  /\ Decided(r)
  /\ calls[r].ordinal > (IF req[r].route = "research" THEN 10 ELSE 5)

\* C8: a request its route's limiter rejects is answered 429 with the limiter's
\* message and does not run the handler: no script-service call, no
\* speech-service call, no insert; and every 429 is such a request.
C8_RejectedNeverHandled ==
  \A r \in Slots :
    /\ Rejected(r) =>
         /\ Done(r)
         /\ resp[r].status = 429
         /\ resp[r].body.kind = "text"
         /\ calls[r].handler = 0
         /\ calls[r].generate = 0
         /\ calls[r].speech = 0
         /\ calls[r].insert = 0
    /\ resp[r].status = 429 => (Rejected(r) /\ calls[r].handler = 0)

C8_Witness ==
  \E r \in Slots :
    /\ Rejected(r)
    /\ req[r].route = "audio"
    /\ req[r].script = Arr(<<HostLine>>)
    /\ resp[r].status = 429

\* the store holds a row with the id the request in slot r names; it is the
\* caller's, or another user's
NamesOwnRow(r) == \E row \in store : row.id = req[r].id /\ row.user_id = ctx[r].user.id

NamesForeignRow(r) == \E row \in store : row.id = req[r].id /\ row.user_id # ctx[r].user.id

\* the store answered every query of the request in slot r
StoreAnswered(r) == calls[r].faults = 0

\* C9: GET /api/scripts/:id for an id that names another user's record is
\* answered like an id that names no record: 404 "Script not found" whenever the
\* store answers the query; it is never 403 and never carries a record.
C9_ForeignIsNotFound ==
  \A r \in Slots :
    (req[r].route = "get" /\ Handled(r) /\ Done(r) /\ ~NamesOwnRow(r)) =>
      /\ resp[r].status # 403
      /\ resp[r].body.kind # "record"
      /\ (calls[r].select = 1 /\ StoreAnswered(r)) =>
           resp[r] = ErrorResp(404, "Script not found")

C9_Witness ==
  \E r \in Slots :
    /\ req[r].route = "get"
    /\ Done(r)
    /\ NamesForeignRow(r)
    /\ StoreAnswered(r)
    /\ resp[r].status = 404

\* C10: when the store answers, the owner's DELETE of an existing record is
\* answered with success and leaves no row with that id, and the owner's next
\* DELETE of the same id is answered 404.
C10_SecondDeleteIs404 ==
  \A r \in Slots :
    (req[r].route = "delete" /\ Handled(r) /\ Done(r) /\ calls[r].select = 1) =>
      /\ (calls[r].owned /\ StoreAnswered(r)) =>
           /\ resp[r].status = 200
           /\ resp[r].body.kind = "message"
      /\ resp[r].status = 200 =>
           /\ calls[r].owned
           /\ ~\E row \in store : row.id = req[r].id
      /\ (calls[r].again /\ StoreAnswered(r)) =>
           resp[r] = ErrorResp(404, "Script not found")

C10_Witness ==
  \E r \in Slots :
    /\ req[r].route = "delete"
    /\ Done(r)
    /\ calls[r].again
    /\ StoreAnswered(r)
    /\ resp[r].status = 404
    /\ store # {}

\* the ids of the records the response in slot r carries
Returned_Ids(r) ==
  IF resp[r].body.kind = "record" THEN {resp[r].body.record.id}
  ELSE IF resp[r].body.kind = "list"
    THEN {resp[r].body.scripts[i].id : i \in 1..Len(resp[r].body.scripts)}
  ELSE {}

\* no response of a scripts route carries a record of a user other than the caller
NoForeignRecordReturned ==
  \A r \in Slots :
    req[r].route \in {"list", "get", "delete"} =>
      \A row \in store : row.id \in Returned_Ids(r) => row.user_id = ctx[r].user.id

\* a row leaves the store, or changes, only in the step in which the store
\* answers the delete of a DELETE request that its owner made for its id
OnlyOwnerDeleteRemoves ==
  \A row \in store :
    row \notin store' =>
      \E r \in Slots :
        /\ req[r].route = "delete"
        /\ pc[r] = "deleting"
        /\ req[r].id = row.id
        /\ ctx[r].user.id = row.user_id
        /\ resp'[r].status = 200

\* C11: list, get and delete requests of users other than a record's owner
\* leave the record in the store unchanged and never return it: a row is
\* removed only by its owner's DELETE and returned only to its owner.
C11_OnlyOwnerReadsAndDeletes ==
  []NoForeignRecordReturned /\ [][OnlyOwnerDeleteRemoves]_vars

C11_Witness ==
  \E r \in Slots :
    /\ req[r].route = "delete"
    /\ Done(r)
    /\ NamesForeignRow(r)
    /\ StoreAnswered(r)
    /\ resp[r].status = 404
    /\ ctx[r].user = UserB

\* the token of a 'Bearer ' header: what follows the prefix
TokenOf(header) == CHOOSE token \in {SubSeq(header, i, Len(header)) : i \in 1..(Len(header) + 1)} :
                     header = "Bearer " \o token

\* the answer of the identity provider for the token of the request in slot r
Verdict(r) == GetUser(TokenOf(req[r].authorization.v))

\* the limiter or the handler of its route has got the request in slot r
PastAuth(r) ==
  \/ pc[r] \notin {"idle", "auth", "verify", "done"}
  \/ calls[r].limiter > 0
  \/ calls[r].handler > 0

\* C12: when the identity provider answers the verification with an error or
\* with no user, authMiddleware responds 401 and the request reaches no rate
\* limiter and no handler; a limiter or handler runs only for a request whose
\* req.user holds the id the provider verified for its token.
C12_RejectedTokenIs401 ==
  \A r \in Slots :
    /\ (calls[r].verify = "answered" /\ (Verdict(r).error \/ Verdict(r).user.id = "")) =>
         /\ Done(r)
         /\ resp[r] = ErrorResp(401, "Invalid or expired token")
         /\ ~PastAuth(r)
         /\ calls[r].generate + calls[r].speech + calls[r].insert
              + calls[r].select + calls[r].delete = 0
    /\ PastAuth(r) =>
         /\ calls[r].verify = "answered"
         /\ ~Verdict(r).error
         /\ ctx[r].hasUser
         /\ ctx[r].user.id # ""
         /\ ctx[r].user.id = Verdict(r).user.id

C12_Witness ==
  \E r \in Slots :
    /\ Done(r)
    /\ req[r].route = "audio"
    /\ req[r].authorization = Str("Bearer tokNone")
    /\ calls[r].verify = "answered"
    /\ resp[r].status = 401

\* the Authorization header is a string that starts with 'Bearer '
WellFormedBearer(header) ==
  header.t = "string" /\ Len(header.v) >= 7 /\ SubSeq(header.v, 1, 7) = "Bearer "

\* C13: a request with a well-formed 'Bearer ' header, made while SUPABASE_URL
\* or SUPABASE_SERVICE_KEY is missing, is answered 500 by authMiddleware, with
\* no verification call and without reaching a limiter or a handler.
C13_NoClientIs500 ==
  \A r \in Slots :
    (pc[r] \notin {"idle", "auth"} /\ WellFormedBearer(req[r].authorization) /\ ~envSupabase) =>
      /\ Done(r)
      /\ resp[r] = ErrorResp(500, "Authentication service not configured")
      /\ calls[r].getUser = 0
      /\ calls[r].verify = "none"
      /\ ~PastAuth(r)
      /\ NoOutsideCall(r)

C13_Witness ==
  \E r \in Slots :
    /\ Done(r)
    /\ req[r].route = "list"
    /\ req[r].authorization = BearerA
    /\ ~envSupabase
    /\ resp[r].status = 500

White(s, k) == CharAt(s, k) \in {" ", "\t", "\n", "\r"}

\* every character of s is white space (s may be empty)
AllWhite(s) == \A k \in 1..Len(s) : White(s, k)

\* t is s without its leading and trailing white space, and is not empty
TrimmedOf(t, s) ==
  \E i \in 1..Len(s) : \E j \in i..Len(s) :
    /\ ~White(s, i)
    /\ ~White(s, j)
    /\ \A k \in 1..Len(s) : (k < i \/ k > j) => White(s, k)
    /\ t = SubSeq(s, i, j)

\* b is the letter a in lower case, or a itself when a is no upper-case letter
LowerOf(b, a) == IF a \in DOMAIN LowerTable THEN b = LowerTable[a] ELSE b = a

\* t is s in lower case
LowerCased(t, s) ==
  Len(t) = Len(s) /\ \A k \in 1..Len(s) : LowerOf(CharAt(t, k), CharAt(s, k))

\* C14: the script service is called only for a request whose topic,
\* durationMinutes and style are all valid, and the request it gets carries the
\* topic trimmed, the style in lower case and durationMinutes as it came; a topic
\* that is empty after trimming is answered 400 without a call.
C14_ServiceGetsValidatedRequest ==
  \A r \in Slots :
    req[r].route = "research" =>
      /\ calls[r].generate > 0 =>
           /\ req[r].topic.t = "string"
           /\ req[r].style.t = "string"
           /\ InRange(req[r].durationMinutes)
           /\ TrimmedOf(calls[r].sent.topic, req[r].topic.v)
           /\ LowerCased(calls[r].sent.style, req[r].style.v)
           /\ calls[r].sent.style \in AllowedStyles
           /\ calls[r].sent.durationMinutes = req[r].durationMinutes
      /\ (Handled(r) /\ req[r].topic.t = "string" /\ AllWhite(req[r].topic.v)) =>
           /\ Done(r)
           /\ resp[r].status = 400
           /\ calls[r].generate = 0
           /\ calls[r].insert = 0

C14_Witness ==
  \E r \in Slots :
    /\ req[r].route = "research"
    /\ calls[r].generate = 1
    /\ req[r].topic = Str(" AI ")
    /\ req[r].style = Str("STORYTELLING")
    /\ req[r].durationMinutes = Num(120)
    /\ calls[r].sent = [topic |-> "AI", durationMinutes |-> Num(120), style |-> "storytelling"]

\* the script service failed the request in slot r: no answer, a failure
\* status, or a body that is not an array
UpstreamFailed(r) ==
  /\ req[r].route = "research"
  /\ calls[r].upstream # Undefined
  /\ ~(calls[r].upstream.kind = "ok" /\ calls[r].upstream.body.t = "array")

\* the message of the error generatePodcastScript raises for a failure
FailureMessage(o) ==
  CASE o.kind = "throw" -> o.message
    [] o.kind = "http" /\ ~o.json -> "Unknown error"
    [] o.kind = "http" /\ o.json /\ o.error.t = "string" -> o.error.v
    [] o.kind = "http" /\ o.json /\ o.error.t # "string" -> "HTTP error: " \o ToString(o.status)
    [] o.kind = "ok" /\ ~o.json -> "Unexpected token < in JSON at position 0"
    [] OTHER -> "Invalid script format: expected array"

\* C15: when the script-generation call throws, answers with a failure status
\* or answers with a body that is not an array, generate-research responds 500
\* with the message of the error, and attempts no insert for the request.
C15_UpstreamFailureIs500 ==
  \A r \in Slots :
    UpstreamFailed(r) =>
      /\ Done(r)
      /\ resp[r] = ErrorResp(500, FailureMessage(calls[r].upstream))
      /\ calls[r].insert = 0
      /\ calls[r].insertOutcome = "none"
      /\ calls[r].insertedId = ""

C15_Witness ==
  \E r \in Slots :
    /\ UpstreamFailed(r)
    /\ calls[r].upstream.kind = "http"
    /\ calls[r].upstream.status = 502
    /\ resp[r] = ErrorResp(500, "HTTP error: 502")
    /\ routeSupabase

\* the lines of a script whose text is not white space only
Kept(script) == {i \in 1..Len(script) : ~AllWhite(script[i].text.v)}

\* the length of the texts of the kept lines before line i, one more for each
RECURSIVE LenBefore(_, _)
LenBefore(script, i) ==
  IF i = 1 THEN 0
  ELSE LenBefore(script, i - 1)
         + (IF i - 1 \in Kept(script) THEN Len(script[i - 1].text.v) + 1 ELSE 0)

\* t is the texts of the kept lines of the script, in their order, with one
\* space between each two
IsBlobOf(t, script) ==
  /\ Len(t) + 1 = LenBefore(script, Len(script) + 1)
  /\ \A i \in Kept(script) :
       LET at == LenBefore(script, i) IN
       /\ SubSeq(t, at + 1, at + Len(script[i].text.v)) = script[i].text.v
       /\ at > 0 => CharAt(t, at) = " "

\* the script with the speaker and the effect of every line replaced
Relabel(script, speaker, effect) ==
  [i \in 1..Len(script) |-> [speaker |-> speaker, text |-> script[i].text, audioEffect |-> effect]]

Listed(r) ==
  /\ req[r].route = "list"
  /\ Done(r)
  /\ calls[r].select = 1
  /\ StoreAnswered(r)

\* C17: GET /api/scripts returns exactly the records of the caller, one entry
\* for each, without script_data, from the newest to the oldest.
C17_ListIsOwnSummariesNewestFirst ==
  \A r \in Slots :
    Listed(r) =>
      /\ resp[r].status = 200
      /\ resp[r].body.kind = "list"
      /\ LET scripts == resp[r].body.scripts
             own == {row \in store : row.user_id = ctx[r].user.id} IN
           /\ Len(scripts) = Cardinality(own)
           /\ \A row \in own : \E i \in 1..Len(scripts) :
                /\ scripts[i].id = row.id
                /\ scripts[i].topic = row.topic
                /\ scripts[i].created_at = row.created_at
           /\ \A i \in 1..Len(scripts) :
                /\ "script_data" \notin DOMAIN scripts[i]
                /\ \E row \in own : row.id = scripts[i].id
           /\ \A i, j \in 1..Len(scripts) :
                i < j => scripts[i].created_at >= scripts[j].created_at

C17_Witness ==
  \E r \in Slots :
    /\ Listed(r)
    /\ Len(resp[r].body.scripts) = 2
    /\ resp[r].body.scripts[1].created_at > resp[r].body.scripts[2].created_at

RECURSIVE SumSeq(_)
SumSeq(counts) == IF Len(counts) = 0 THEN 0 ELSE Head(counts) + SumSeq(Tail(counts))

\* the requests of a client address admitted to the generate-research handler
\* at the last WindowTicks instants, an interval shorter than the window
AdmittedLately(key) == SumSeq(history.recent["research"][key])

\* C18 as stated: for each client address, every interval of one window's
\* length, wherever it starts, holds at most 10 requests admitted to the
\* generate-research handler.
C18_Claim == \A key \in Ips : AdmittedLately(key) <= 10

\* a counter changes only when its limiter counts a request of its own route
\* and client address, or when no request takes a step (its window ends)
OnlyOwnKeyCounts ==
  \A l \in Limiters, key \in Ips :
    hits'[l][key] # hits[l][key] =>
      \/ \E r \in Slots :
           /\ pc[r] = "limiter"
           /\ pc'[r] = "limitcheck"
           /\ req[r].route = l
           /\ req[r].ip = key
           /\ hits'[l][key] = hits[l][key] + 1
      \/ (pc' = pc /\ hits'[l][key] = 0)

\* a request is admitted by the count of its own route and client address
\* alone: the first 5 audio requests and the first 10 research requests of a
\* window pass whatever the other counters hold
AdmittedByOwnCount ==
  \A r \in Slots :
    Decided(r) =>
      /\ ctx[r].totalHits = calls[r].ordinal
      /\ calls[r].ordinal \in 1..(IF req[r].route = "research" THEN 10 ELSE 5) => Passed(r)

\* C19: the counters are independent per route and per client address:
\* counting a request changes the counter of its route and address only, so
\* a client that has used its 10 script requests of a window is still let
\* through for 5 audio requests.
C19_CountersIndependent ==
  []AdmittedByOwnCount /\ [][OnlyOwnKeyCounts]_vars

C19_Witness ==
  \E r \in Slots :
    /\ req[r].route = "audio"
    /\ req[r].ip = "ip1"
    /\ Decided(r)
    /\ calls[r].ordinal = 5
    /\ Passed(r)
    /\ hits["research"]["ip1"] >= 10
    /\ hits["research"]["ip2"] = 1

\* the generate-research request of the page was answered with a success
\* status and a JSON body
ScriptStepSucceeded ==
  /\ page.researchAnswer # Undefined
  /\ page.researchAnswer.kind = "response"
  /\ page.researchAnswer.response.status >= 200
  /\ page.researchAnswer.response.status < 300
  /\ page.researchAnswer.response.body.kind # "text"

\* C20: handleGenerate sends the generate-audio request only after the
\* generate-research response has arrived with a success status, and with the
\* script of that response as its body; when the script step fails, it sends
\* no audio request.
C20_AudioAfterScript ==
  /\ page.at = "research" => page.audioSent = 0
  /\ page.audioSent > 0 =>
       /\ page.audioSent = 1
       /\ page.researchSent = 1
       /\ ScriptStepSucceeded
       /\ page.audioBody.script.t = "array"
       /\ page.audioBody.script.v = page.researchAnswer.response.body.script
  /\ (page.researchAnswer # Undefined /\ ~ScriptStepSucceeded) =>
       /\ page.audioSent = 0
       /\ page.at = "form"
       /\ page.error # Null
       /\ ~page.loading

C20_Witness ==
  /\ page.at = "audio"
  /\ page.audioSent = 1
  /\ page.researchAnswer = Fetched(ScriptResp(<<GuestLine, HostLine>>, Null))
  /\ page.audioBody = [script |-> Arr(<<GuestLine, HostLine>>)]

\* C21: with the requests of one client interleaved in every order, the number
\* of requests a window admits to the generate-research handler never exceeds 10
\* and the number it admits to the generate-audio handler never exceeds 5: each
\* request is counted and learns its own count in one step, and no two requests
\* of one window that wait for the decision hold the same count.
C21_AdmittedWithinMax ==
  /\ \A l \in Limiters : \A key \in Ips : history.admitted[l][key] <= LimiterMax(l)
  /\ history.admitted["research"]["ip1"] <= 10
  /\ history.admitted["audio"]["ip1"] <= 5
  /\ \A r \in Slots : \A o \in Slots \ {r} :
       ( /\ pc[r] = "limitcheck" /\ pc[o] = "limitcheck"
         /\ req[r].route = req[o].route /\ req[r].ip = req[o].ip
         /\ ~calls[r].lapsed /\ ~calls[o].lapsed ) =>
         ctx[r].totalHits # ctx[o].totalHits

C21_Witness ==
  /\ pc[1] = "handler"
  /\ req[1].route = "research"
  /\ ctx[1].totalHits = GenerateMax
  /\ pc[2] = "done"
  /\ req[2].route = "research"
  /\ resp[2].status = 429
  /\ history.admitted["research"]["ip1"] = GenerateMax

\* the speech service failed the request in slot r
SpeechFailed(r) ==
  /\ req[r].route = "audio"
  /\ calls[r].speech > 0
  /\ Done(r)
  /\ resp[r].status = 500

\* the insert of the request in slot r failed: an error, no row, or an exception
InsertFailed(r) == calls[r].insertOutcome \in {"error", "norow", "throw"}

\* C22: while it handles one request the server makes at most one
\* token-verification call, one script-generation call, one speech-synthesis call
\* and one insert, and a request whose call failed is answered with that one call
\* made: 500 for a verification that threw, a script service that failed and a
\* speech service that failed, 200 for an insert that failed.
C22_NoRetry ==
  \A r \in Slots :
    /\ calls[r].getUser <= 1
    /\ calls[r].generate <= 1
    /\ calls[r].speech <= 1
    /\ calls[r].insert <= 1
    /\ calls[r].verify = "threw" =>
         /\ Done(r) /\ resp[r].status = 500
         /\ calls[r].getUser = 1 /\ calls[r].responses = 1
    /\ UpstreamFailed(r) =>
         /\ Done(r) /\ resp[r].status = 500
         /\ calls[r].generate = 1 /\ calls[r].insert = 0 /\ calls[r].responses = 1
    /\ SpeechFailed(r) => (calls[r].speech = 1 /\ calls[r].responses = 1)
    /\ InsertFailed(r) =>
         /\ Done(r) /\ resp[r].status = 200
         /\ calls[r].insert = 1 /\ calls[r].generate = 1 /\ calls[r].responses = 1

C22_Witness ==
  \E r \in Slots :
    /\ UpstreamFailed(r)
    /\ calls[r].upstream.kind = "throw"
    /\ Done(r)
    /\ calls[r].getUser = 1
    /\ calls[r].generate = 1
    /\ resp[r].status = 500

\* a response to the request in slot r has been sent
Sent(r) == calls[r].responses > 0 \/ resp[r] # NoResp

\* C23: when the response to a generate-research request is sent, no call that
\* the request started is outstanding: the request waits for no answer of the
\* identity provider, the script service or the store, the script service has
\* answered or failed if it was called, and the insert has ended (a row, an
\* error, no row, or an exception) if it was started.
C23_NothingOutstandingAtResponse ==
  \A r \in Slots :
    (req[r].route = "research" /\ Sent(r)) =>
      /\ pc[r] \notin {"verify", "generate", "insert"}
      /\ Done(r)
      /\ calls[r].generate > 0 => calls[r].upstream # Undefined
      /\ calls[r].insert > 0 => calls[r].insertOutcome \in InsertOutcomes

C23_Witness ==
  \E r \in Slots :
    /\ req[r].route = "research"
    /\ Sent(r)
    /\ calls[r].insert = 1
    /\ calls[r].insertOutcome = "error"
    /\ resp[r].status = 200

\* the user the identity provider names for the token of the request in slot r
CallerOf(r) == Verdict(r).user

\* x is an integer in [5,120]
IntegerInRange(x) == x.t = "number" /\ ~x.half /\ x.v \in 5..120

\* s has no white space at either end and is not empty
IsTrimmed(s) == Len(s) > 0 /\ ~White(s, 1) /\ ~White(s, Len(s))

\* C24: every row that generate-research has put into the table has a topic
\* that is non-empty and trimmed, a style that is one of the five lower-case
\* allowed values and a duration_minutes that is an integer in [5,120] (the
\* handler admits numbers in [5,120], the column keeps integers only), and the
\* row a request has just inserted has the user_id of the authenticated caller
\* and the topic and the style of the request, trimmed and lower-cased.
C24_InsertedRowsAreValid ==
  /\ \A row \in store :
       /\ row.user_id \in {UserA.id, UserB.id}
       /\ IsTrimmed(row.topic)
       /\ row.style \in AllowedStyles
       /\ IntegerInRange(row.duration_minutes)
  /\ \A r \in Slots :
       calls[r].insertOutcome = "ok" =>
         \E row \in store :
           /\ row.id = calls[r].insertedId
           /\ row.user_id = CallerOf(r).id
           /\ TrimmedOf(row.topic, req[r].topic.v)
           /\ LowerCased(row.style, req[r].style.v)
           /\ InRange(req[r].durationMinutes)
           /\ 2 * row.duration_minutes.v \in {Twice(req[r].durationMinutes) - 1,
                                              Twice(req[r].durationMinutes),
                                              Twice(req[r].durationMinutes) + 1}

C24_Witness ==
  \E r \in Slots :
    /\ calls[r].insertOutcome = "ok"
    /\ req[r].authorization = BearerB
    /\ req[r].topic = Str(" AI ")
    /\ req[r].style = Str("STORYTELLING")
    /\ req[r].durationMinutes = Num(MaxDuration)
    /\ \E row \in store :
         /\ row.id = calls[r].insertedId
         /\ row.user_id = UserB.id
         /\ row.topic = "AI"
         /\ row.style = "storytelling"
         /\ row.duration_minutes = Num(120)

\* the request in slot r has got at most one response, and none while a
\* middleware or a handler still has it
OneResponseAtMost(r) ==
  /\ calls[r].responses <= 1
  /\ Done(r) => (calls[r].responses = 1 /\ resp[r] # NoResp)
  /\ pc[r] \notin {"idle", "done"} => (calls[r].responses = 0 /\ resp[r] = NoResp)

\* C25: provided every awaited call returns or throws, every request that
\* reaches authMiddleware is answered, and it is answered once: authMiddleware
\* sends a response or passes the request on, never both, and the
\* generate-research, generate-audio and scripts handlers send one response
\* whether the validation fails, a call fails, an exception is thrown or the
\* operation succeeds.
C25_ExactlyOneResponse ==
  /\ [](\A r \in Slots : OneResponseAtMost(r))
  /\ \A r \in One : (pc[r] = "auth") ~> (Done(r) /\ calls[r].responses = 1)

C25_Witness ==
  \E r \in Slots :
    /\ Done(r)
    /\ req[r].route = "audio"
    /\ req[r].script = Arr(<<HostLine, NoTextLine>>)
    /\ calls[r].handler = 1
    /\ calls[r].responses = 1
    /\ resp[r].status = 500

\* no call of handleDeleteScript is under way
NoDeleteUnderWay == \A d \in Deletes : scriptHistory.deleting[d].at = "idle"

\* C26 as stated: once every delete under way has ended, the list the page
\* shows holds no script whose DELETE request was answered with success, also
\* when a second delete was started before the first one was answered.
C26_Claim == NoDeleteUnderWay => Shown \cap scriptHistory.deleted = {}

\* no run of handleGenerate is under way and the page shows no progress
Settled == ~page.loading /\ page.loadingStep = ""

\* C27: provided each fetch returns or throws, every run of handleGenerate that
\* sets loading to true sets it back to false and loadingStep to the empty
\* string: whenever no run is under way the page is settled (the run without a
\* token included, which ends before its first fetch), and a page that is loading
\* becomes settled whether the script step fails, the audio step fails or both
\* succeed.
C27_LoadingEnds ==
  /\ [](page.at = "form" => Settled)
  /\ [](page.at # "form" => page.loading)
  /\ page.loading ~> Settled

C27_Witness ==
  /\ Settled
  /\ page.at = "form"
  /\ page.researchSent = 1
  /\ page.audioSent = 1
  /\ page.error = Str("Script is empty")

\* C28: every authenticated request to generate-research or generate-audio is
\* counted by its route's limiter before the handler validates it, and a request
\* that the handler answers 400 or 500 stays counted: the counter equals the
\* number of requests that reached the limiter in the window, every request
\* counted within max is handled (here with 400 or 500), and after max such
\* requests (10 for generate-research) the next one, although valid, is
\* answered 429 without reaching the handler.
C28_RefusedRequestsCount ==
  /\ \A l \in Limiters : \A key \in Ips : hits[l][key] = history.counted[l][key]
  /\ \A r \in Slots :
       req[r].route \in Limiters =>
         /\ Handled(r) => (calls[r].limiter = 1 /\ calls[r].ordinal \in 1..LimiterMax(req[r].route))
         /\ req[r] \in ValidInputs =>
              (calls[r].ordinal = 0 \/ calls[r].ordinal > LimiterMax(req[r].route))
         /\ (Done(r) /\ calls[r].ordinal \in 1..LimiterMax(req[r].route)) =>
              (Handled(r) /\ resp[r].status \in {400, 500})
         /\ (Decided(r) /\ calls[r].limiter = 1 /\ req[r] \in ValidInputs) =>
              /\ Done(r)
              /\ resp[r].status = 429
              /\ ~Handled(r)
              /\ calls[r].ordinal > LimiterMax(req[r].route)
         /\ (Decided(r) /\ req[r].route = "research" /\ calls[r].ordinal = 11) =>
              resp[r].status = 429

C28_Witness ==
  \E r \in Slots :
    /\ req[r] \in ValidInputs
    /\ req[r].route = "research"
    /\ Done(r)
    /\ calls[r].ordinal = GenerateMax + 1
    /\ hits["research"]["ip1"] = GenerateMax + 1
    /\ resp[r].status = 429
    /\ calls[r].handler = 0


====
